---- MODULE Spec2Model ----
(***************************************************************************)
(* Model of the GenoStream data-ingestion engine (src/download_data.py):   *)
(* the retrying HTTP transport, the metadata discovery loop, the streaming *)
(* subsampler, the length prober and the paired-end coordinator.           *)
(*                                                                         *)
(* Each component has its own specification over the shared variables; a   *)
(* specification pins the variables of the components it does not run.     *)
(***************************************************************************)
EXTENDS Integers, Sequences, FiniteSets, TLC

VARIABLES
    fetch,   \* one http_get_with_retries call
    nm,      \* one organism-name comparison
    res,     \* one find_valid_run call
    op,      \* the stream_subsample_to_gz operations, by operation id
    fs,      \* the filesystem: path -> file content, or Absent
    pair,    \* the paired short-read branch of main
    probe,   \* one probe_mean_read_length call
    sel,     \* the long-read selection of main
    links,   \* one link field of a filereport row
    gs,      \* one smart_select_and_download call of the earlier engine
    mates    \* one detect_r1_r2 call

vars == <<fetch, nm, res, op, fs, pair, probe, sel, links, gs, mates>>

Idle == [pc |-> "idle"]

Min(a, b) == IF a <= b THEN a ELSE b

(***************************************************************************)
(* TRANSPORT: http_get_with_retries                                        *)
(***************************************************************************)

\* Largest value of the `retries` parameter explored.
MaxRetries == 2
\* Largest value of the `backoff` parameter explored.
MaxBackoff == 2

\* An attempt's outcome is the status code of the response, or ConnFail when
\* session.get raised a requests.RequestException and there is no response.
ConnFail == 0
RetryStatus == {429, 500, 502, 503, 504}
\* Status codes for which Response.raise_for_status raises HTTPError.
ErrorStatus == {403, 404}
OkStatus == {200}

NoExc == [attempt |-> 0, cause |-> ConnFail]

\* `for attempt in range(1, retries + 2)`: the number of iterations.
LoopOffByOne(retries) == retries + 2
MaxAttempts(retries) == retries + 1

FetchStart(retries, backoff) ==
    [pc |-> "try", retries |-> retries, backoff |-> backoff, attempt |-> 1,
     requests |-> <<>>,      \* the outcome of each session.get so far
     closed |-> {},          \* indices of the responses closed by the call
     waits |-> <<>>,         \* the time.sleep arguments so far
     last_exc |-> NoExc]

\* The end of one loop iteration that did not return: the next iteration, or
\* the loop is over and the RuntimeError is raised.
FetchAdvance(f) ==
    IF f.attempt + 1 <= MaxAttempts(f.retries)
    THEN [f EXCEPT !.attempt = @ + 1]
    ELSE [f EXCEPT !.pc = "raised"]

\* session.get answered with a status in (429, 500, 502, 503, 504).
GetRetryStatus(s) ==
    /\ fetch.pc = "try"
    /\ s \in RetryStatus
    /\ fetch' = FetchAdvance(
           [fetch EXCEPT !.requests = Append(@, s),
                         !.closed = @ \cup {Len(fetch.requests) + 1},
                         !.waits = Append(@, fetch.backoff * fetch.attempt)])
    /\ UNCHANGED <<nm, res, op, fs, pair, probe, sel, links, gs, mates>>

\* session.get answered and raise_for_status did not raise: return r.
GetOk(s) ==
    /\ fetch.pc = "try"
    /\ s \in OkStatus
    /\ fetch' = [fetch EXCEPT !.requests = Append(@, s), !.pc = "returned"]
    /\ UNCHANGED <<nm, res, op, fs, pair, probe, sel, links, gs, mates>>

\* The except clause: last_exc is set, and the call sleeps and continues
\* while attempt <= retries, else breaks out of the loop and raises.
FetchExcept(f, s) ==
    LET g == [f EXCEPT !.requests = Append(@, s),
                       !.last_exc = [attempt |-> f.attempt, cause |-> s]]
    IN  IF f.attempt <= f.retries
        THEN [g EXCEPT !.waits = Append(@, f.backoff * f.attempt),
                       !.attempt = @ + 1]
        ELSE [g EXCEPT !.pc = "raised"]

\* session.get answered with another error status: raise_for_status raises
\* HTTPError, a RequestException, caught by the except clause.
GetHttpError(s) ==
    /\ fetch.pc = "try"
    /\ s \in ErrorStatus
    /\ fetch' = FetchExcept(fetch, s)
    /\ UNCHANGED <<nm, res, op, fs, pair, probe, sel, links, gs, mates>>

\* session.get raised a RequestException (connection failure, timeout).
GetConnError ==
    /\ fetch.pc = "try"
    /\ fetch' = FetchExcept(fetch, ConnFail)
    /\ UNCHANGED <<nm, res, op, fs, pair, probe, sel, links, gs, mates>>

FetchInit ==
    /\ fetch \in {FetchStart(r, b) : r \in 0..MaxRetries, b \in 1..MaxBackoff}
    /\ nm = Idle /\ res = Idle /\ op = Idle /\ fs = Idle /\ pair = Idle /\ probe = Idle /\ sel = Idle /\ links = Idle /\ gs = Idle /\ mates = Idle

FetchNext ==
    \/ \E s \in RetryStatus : GetRetryStatus(s)
    \/ \E s \in OkStatus : GetOk(s)
    \/ \E s \in ErrorStatus : GetHttpError(s)
    \/ GetConnError

FetchSpec == FetchInit /\ [][FetchNext]_vars

\* C9: fetch retries only after a connection failure or a 429/500/502/503/504
\* response; a response with any other non-2xx status is terminal: it is the
\* last request of the call and the call has ended with an error.
C9_OtherStatusTerminal ==
    \A i \in 1..Len(fetch.requests) :
        fetch.requests[i] \in ErrorStatus =>
            /\ i = Len(fetch.requests)
            /\ fetch.pc = "raised"

\* C10: a fetch call issues at most retries + 1 requests; once it has issued
\* that many it has terminated, and a terminated call either returned a
\* successful response or raised.
C10_BoundedAttempts ==
    /\ Len(fetch.requests) <= fetch.retries + 1
    /\ Len(fetch.requests) = fetch.retries + 1 => fetch.pc \in {"returned", "raised"}
    /\ fetch.pc = "returned" =>
           fetch.requests[Len(fetch.requests)] \in OkStatus
    /\ fetch.pc = "try" => fetch.attempt = Len(fetch.requests) + 1

\* C10 witness: a call that used every attempt and raised.
C10_Witness ==
    /\ fetch.pc = "raised"
    /\ fetch.retries >= 1
    /\ Len(fetch.requests) = fetch.retries + 1

\* C11: when fetch gives up, the error it raises carries the cause of the
\* last failed attempt, be it a connection failure or a retryable status.
C11_LastCauseCarried ==
    fetch.pc = "raised" =>
        /\ fetch.last_exc.attempt = Len(fetch.requests)
        /\ fetch.last_exc.cause = fetch.requests[Len(fetch.requests)]

\* The attempts that produced a response the call did not return.
NotReturned(f) ==
    {i \in 1..Len(f.requests) :
        /\ f.requests[i] # ConnFail
        /\ ~(f.pc = "returned" /\ i = Len(f.requests))}

\* C12: every response that is not returned has been closed when the next
\* attempt starts and when the call ends in failure.
C12_NonReturnedClosed ==
    NotReturned(fetch) \subseteq fetch.closed

\* C33: in a fetch call that makes n attempts the waits are backoff * 1, ...,
\* backoff * (n - 1), one between each two consecutive attempts, after either
\* kind of retryable failure; there is no wait before the first attempt and
\* none after the last.
C33_LinearWaits ==
    LET n == Len(fetch.requests)
        between == IF fetch.pc = "try" THEN n ELSE n - 1
    IN  fetch.pc \in {"try", "returned", "raised"} =>
            fetch.waits = [k \in 1..between |-> fetch.backoff * k]

(***************************************************************************)
(* ORGANISM-NAME VALIDATION: normalize_species and its use in              *)
(* find_valid_run.  A string is a sequence of one-character strings.       *)
(***************************************************************************)

\* Longest catalog organism field explored.
MaxNameLen == 4
\* Longest requested organism name explored.
MaxTargetLen == 3

Chars == {"a", "A", " "}
Strings(n) == UNION {[1..k -> Chars] : k \in 0..n}

\* str.isspace for the characters of the model.
IsSpace(c) == c \in {" ", "\t", "\n"}

\* str.lower, character by character.
LowerChar(c) ==
    CASE c = "A" -> "a"
      [] c = "U" -> "u"
      [] c = "R" -> "r"
      [] c = "B" -> "b"
      [] OTHER -> c
Lower(s) == [i \in 1..Len(s) |-> LowerChar(s[i])]

\* str.strip: drop the leading and the trailing whitespace.
RECURSIVE LStrip(_)
LStrip(s) == IF s # <<>> /\ IsSpace(Head(s)) THEN LStrip(Tail(s)) ELSE s
RECURSIVE RStrip(_)
RStrip(s) ==
    IF s # <<>> /\ IsSpace(s[Len(s)]) THEN RStrip(SubSeq(s, 1, Len(s) - 1)) ELSE s
Strip(s) == RStrip(LStrip(s))

\* str.split(): the maximal runs of non-whitespace characters, in order.
RECURSIVE SplitFrom(_, _, _)
SplitFrom(s, word, words) ==
    IF s = <<>>
    THEN IF word = <<>> THEN words ELSE Append(words, word)
    ELSE IF IsSpace(Head(s))
         THEN SplitFrom(Tail(s), <<>>,
                        IF word = <<>> THEN words ELSE Append(words, word))
         ELSE SplitFrom(Tail(s), Append(word, Head(s)), words)
Split(s) == SplitFrom(s, <<>>, <<>>)

\* " ".join(words)
RECURSIVE Join(_)
Join(words) ==
    IF words = <<>> THEN <<>>
    ELSE IF Len(words) = 1 THEN words[1]
    ELSE words[1] \o <<" ">> \o Join(Tail(words))

\* A normalisation that trims and lower-cases but keeps inner whitespace.
NormalizeNoCollapse(s) == Lower(Strip(s))
\* " ".join((s or "").strip().lower().split())
normalize_species(s) == Join(Split(Lower(Strip(s))))

Unknown == <<"U", "n", "k", "n", "o", "w", "n">>

\* get_run_info: scientific_name=(rec.get("scientific_name") or "Unknown").strip()
RunScientificName(field) == Strip(IF field = <<>> THEN Unknown ELSE field)

\* find_valid_run: the run is kept iff
\* normalize_species(run.scientific_name) = target_species.
SpeciesMatch(run_name, scientific_name) ==
    normalize_species(run_name) = normalize_species(scientific_name)

SpeciesCheck ==
    /\ nm.pc = "start"
    /\ LET run_name == RunScientificName(nm.field)
       IN  nm' = [nm EXCEPT !.pc = "done",
                            !.run_name = run_name,
                            !.match = SpeciesMatch(run_name, nm.scientific_name)]
    /\ UNCHANGED <<fetch, res, op, fs, pair, probe, sel, links, gs, mates>>

NormInit ==
    /\ nm \in {[pc |-> "start", field |-> f, scientific_name |-> t,
                run_name |-> <<>>, match |-> FALSE] :
                  f \in Strings(MaxNameLen), t \in Strings(MaxTargetLen)}
    /\ fetch = Idle /\ res = Idle /\ op = Idle /\ fs = Idle /\ pair = Idle /\ probe = Idle /\ sel = Idle /\ links = Idle /\ gs = Idle /\ mates = Idle

NormNext == SpeciesCheck

NormSpec == NormInit /\ [][NormNext]_vars

\* The comparison the claim describes, written without the code's operators:
\* every character lower-cased, each run of whitespace replaced by one space,
\* and the space at either end removed.
RECURSIVE CollapseRuns(_, _)
CollapseRuns(s, out) ==
    IF s = <<>> THEN out
    ELSE IF ~IsSpace(Head(s)) THEN CollapseRuns(Tail(s), Append(out, LowerChar(Head(s))))
    ELSE IF out # <<>> /\ out[Len(out)] = " " THEN CollapseRuns(Tail(s), out)
    ELSE CollapseRuns(Tail(s), Append(out, " "))
TrimOneSpace(s) ==
    LET a == IF s # <<>> /\ s[1] = " " THEN Tail(s) ELSE s
    IN  IF a # <<>> /\ a[Len(a)] = " " THEN SubSeq(a, 1, Len(a) - 1) ELSE a
Canonical(s) == TrimOneSpace(CollapseRuns(s, <<>>))

\* t occurs in s as a contiguous piece.
Contains(s, t) ==
    \E i \in 0..(Len(s) - Len(t)) : SubSeq(s, i + 1, i + Len(t)) = t

\* C7: a candidate passes organism validation iff its organism name equals
\* the requested name after lower-casing, trimming and collapsing whitespace
\* runs; a name that only contains the requested name does not pass.
C7_ExactNormalizedMatch ==
    nm.pc = "done" =>
        /\ nm.match <=> Canonical(nm.run_name) = Canonical(nm.scientific_name)
        /\ ( /\ Contains(Canonical(nm.run_name), Canonical(nm.scientific_name))
             /\ Len(Canonical(nm.run_name)) > Len(Canonical(nm.scientific_name)) )
           => ~nm.match

\* C7 witness: names that differ in case and inner whitespace and match.
C7_Witness ==
    /\ nm.pc = "done"
    /\ nm.match
    /\ nm.run_name = <<"A", " ", " ", "a">>
    /\ nm.scientific_name = <<"a", " ", "a">>

(***************************************************************************)
(* METADATA RESOLVER: build_query, ena_search_candidates, get_run_info,     *)
(* pick_best_fastq_urls and the discovery loop of find_valid_run.          *)
(***************************************************************************)

\* Largest number of rows one catalog search returns (max_candidates).
MaxCands == 2

NoRun == [none |-> TRUE]

\* The requested organism (args.organism).
Organism == <<"a", " ", "a">>
\* The scientific_name fields a filereport row may hold.
NameFields == {<<"A", " ", " ", "a">>, <<"a", " ", "a", " ", "a">>, <<>>}

ShortPlatforms == {"ILLUMINA", "ION_TORRENT"}
LongPlatforms == {"OXFORD_NANOPORE", "PACBIO_SMRT"}
Platforms == ShortPlatforms \cup LongPlatforms
Strategies == {"WGS", "AMPLICON"}

\* build_query: the filter expression, field by field.
build_query(scientific_name, platform_type, strategy) ==
    [scientific_name |-> scientific_name,
     instrument_platform |->
         IF platform_type = "SHORT" THEN ShortPlatforms ELSE LongPlatforms,
     library_strategy |-> strategy,
     library_source |-> IF strategy = "WGS" THEN "GENOMIC" ELSE "Any",
     library_layout |-> "Any"]

\* The looser query first.
QueriesLooseFirst(scientific_name, platform_type, strategy, prefer_paired_illumina) ==
    IF platform_type = "SHORT" /\ prefer_paired_illumina
    THEN << build_query(scientific_name, platform_type, strategy),
            [build_query(scientific_name, platform_type, strategy) EXCEPT
                 !.instrument_platform = {"ILLUMINA"},
                 !.library_layout = "PAIRED"] >>
    ELSE << build_query(scientific_name, platform_type, strategy) >>

\* find_valid_run: the ordered list of query variants.
Queries(scientific_name, platform_type, strategy, prefer_paired_illumina) ==
    IF platform_type = "SHORT" /\ prefer_paired_illumina
    THEN << [build_query(scientific_name, platform_type, strategy) EXCEPT
                 !.instrument_platform = {"ILLUMINA"},
                 !.library_layout = "PAIRED"],
            build_query(scientific_name, platform_type, strategy) >>
    ELSE << build_query(scientific_name, platform_type, strategy) >>

\* The run_accession column of the rows a catalog search may return; "" is a
\* row without an accession.
RowLists == UNION {[1..k -> {"R1", ""}] : k \in 1..MaxCands}

\* The link fields of a filereport row, already split on ';' into lists.
LinkFields ==
    {[fastq_ftp |-> <<>>, submitted_ftp |-> <<>>, submitted_format |-> ""],
     [fastq_ftp |-> <<"f_1", "f_2">>, submitted_ftp |-> <<>>, submitted_format |-> ""],
     [fastq_ftp |-> <<>>, submitted_ftp |-> <<"s_1">>, submitted_format |-> "FASTQ"],
     [fastq_ftp |-> <<>>, submitted_ftp |-> <<"s_1">>, submitted_format |-> "BAM"]}

\* The filereport answers: the transport failed, the body has no data row, or
\* a row.
RunInfoResponses(acc) ==
    {[kind |-> "error"], [kind |-> "empty"]} \cup
    {[kind |-> "row", run_accession |-> acc, scientific_name |-> n,
      fastq_ftp |-> l.fastq_ftp, submitted_ftp |-> l.submitted_ftp,
      submitted_format |-> l.submitted_format,
      instrument_platform |-> p, library_strategy |-> s] :
        n \in NameFields, l \in LinkFields, p \in Platforms, s \in Strategies}

\* "fastq" in submitted_format.lower()
NamesFastq(submitted_format) == submitted_format \in {"FASTQ", "fastq"}

\* The row is turned into an EnaRun whatever its links.
get_run_info_unvalidated(resp) ==
    IF resp.kind # "row" THEN NoRun
    ELSE [run_accession |-> resp.run_accession,
          scientific_name |-> RunScientificName(resp.scientific_name),
          instrument_platform |-> resp.instrument_platform,
          library_strategy |-> resp.library_strategy,
          fastq_urls |-> resp.fastq_ftp,
          submitted_urls |-> resp.submitted_ftp,
          submitted_format |-> resp.submitted_format]

\* get_run_info: None on any failure, on an empty body and on a row without a
\* viable FASTQ source; else the EnaRun built from the row.
get_run_info(resp) ==
    IF resp.kind # "row" THEN NoRun
    ELSE IF ~( resp.fastq_ftp # <<>>
               \/ (resp.submitted_ftp # <<>> /\ NamesFastq(resp.submitted_format)) )
    THEN NoRun
    ELSE [run_accession |-> resp.run_accession,
          scientific_name |-> RunScientificName(resp.scientific_name),
          instrument_platform |-> resp.instrument_platform,
          library_strategy |-> resp.library_strategy,
          fastq_urls |-> resp.fastq_ftp,
          submitted_urls |-> resp.submitted_ftp,
          submitted_format |-> resp.submitted_format]

pick_best_fastq_urls(run) ==
    IF run.fastq_urls # <<>> THEN run.fastq_urls
    ELSE IF run.submitted_urls # <<>> /\ NamesFastq(run.submitted_format)
    THEN run.submitted_urls
    ELSE <<>>

\* A validation that accepts any run with links, whatever its organism.
AcceptsWithoutSpecies(run, target) ==
    run # NoRun /\ pick_best_fastq_urls(run) # <<>>
\* find_valid_run, lines 425-441: the three checks on one candidate.
Accepts(run, target) ==
    /\ run # NoRun
    /\ SpeciesMatch(run.scientific_name, target)
    /\ pick_best_fastq_urls(run) # <<>>

\* find_valid_run, lines 425-441: the branch one candidate takes, "none" when
\* it is returned.
SkipBranch(run, target) ==
    IF run = NoRun THEN "broken"
    ELSE IF ~SpeciesMatch(run.scientific_name, target) THEN "species"
    ELSE IF pick_best_fastq_urls(run) = <<>> THEN "no_links"
    ELSE "none"

ResolveStart(platform_type, strategy) ==
    [pc |-> "search", scientific_name |-> Organism,
     platform_type |-> platform_type, strategy |-> strategy,
     queries |-> Queries(Organism, platform_type, strategy, platform_type = "SHORT"),
     qi |-> 1,               \* the query variant being processed
     cands |-> <<>>, ci |-> 0,
     searched |-> <<>>,      \* per search issued: the rows returned
     sent |-> <<>>,          \* per search issued: the query sent
     last_fetch |-> "none",  \* how the latest filereport fetch ended
     linkless_run |-> FALSE, \* get_run_info returned a run without links
     no_links_skip |-> FALSE, \* the NO FASTQ URLS branch was taken
     validated |-> <<>>,     \* per filereport fetch: variant, row, verdict
     failed_checks |-> {},   \* the checks some skipped candidate failed
     result |-> NoRun]

\* `continue` of the outer loop: the next variant, or return None.
NextQuery(r) ==
    IF r.qi < Len(r.queries)
    THEN [r EXCEPT !.pc = "search", !.qi = @ + 1, !.cands = <<>>, !.ci = 0]
    ELSE [r EXCEPT !.pc = "done", !.cands = <<>>, !.ci = 0]

\* Leaving the inner loop at the first skipped row.
NextCandidateBreak(r) == NextQuery(r)

\* `continue` of the inner loop: the next row, or the variant is exhausted.
NextCandidate(r) ==
    IF r.ci < Len(r.cands) THEN [r EXCEPT !.ci = @ + 1] ELSE NextQuery(r)

\* ena_search_candidates raised: the variant is skipped.
SearchError ==
    /\ res.pc = "search"
    /\ res' = NextQuery([res EXCEPT !.searched = Append(@, <<>>),
                                    !.sent = Append(@, res.queries[res.qi])])
    /\ UNCHANGED <<fetch, nm, op, fs, pair, probe, sel, links, gs, mates>>

\* ena_search_candidates returned: no rows skips the variant, else the rows
\* are validated in the order returned.
SearchRows ==
    /\ res.pc = "search"
    /\ \E rows \in RowLists \cup {<<>>} :
         LET asked == [res EXCEPT !.searched = Append(@, rows),
                                  !.sent = Append(@, res.queries[res.qi])]
         IN  res' = IF rows = <<>>
                    THEN NextQuery(asked)
                    ELSE [asked EXCEPT !.pc = "validate", !.cands = rows, !.ci = 1]
    /\ UNCHANGED <<fetch, nm, op, fs, pair, probe, sel, links, gs, mates>>

\* A row without run_accession is skipped without a fetch.
SkipNoAccession ==
    /\ res.pc = "validate"
    /\ res.cands[res.ci] = ""
    /\ res' = NextCandidate(res)
    /\ UNCHANGED <<fetch, nm, op, fs, pair, probe, sel, links, gs, mates>>

\* What the three checks of the claim say about one filereport answer.
Verdict(resp, requested) ==
    [fetched |-> resp.kind = "row",
     organism |-> resp.kind = "row"
                  /\ Canonical(resp.scientific_name) = Canonical(requested),
     links |-> resp.kind = "row"
               /\ ( resp.fastq_ftp # <<>>
                    \/ (resp.submitted_ftp # <<>> /\ resp.submitted_format = "FASTQ") )]

\* A run is usable when it has a primary link list, or a fallback list whose
\* format tag names the sequencing format.
Usable(run) ==
    \/ run.fastq_urls # <<>>
    \/ run.submitted_urls # <<>> /\ run.submitted_format \in {"FASTQ", "fastq"}

Passed(v) == v.fetched /\ v.organism /\ v.links
FailedChecks(v) ==
    IF ~v.fetched THEN {"fetched"}
    ELSE {c \in {"organism", "links"} : ~v[c]}

\* One iteration of the inner loop for a row with an accession: fetch the
\* full metadata, then return the run or skip the candidate.
ValidateCandidate ==
    /\ res.pc = "validate"
    /\ res.cands[res.ci] # ""
    /\ \E resp \in RunInfoResponses(res.cands[res.ci]) :
         LET run == get_run_info(resp)
             v == Verdict(resp, res.scientific_name)
             logged == [res EXCEPT !.validated = Append(@,
                           [q |-> res.qi, i |-> res.ci,
                            acc |-> res.cands[res.ci], passed |-> Passed(v)]),
                                   !.failed_checks = @ \cup FailedChecks(v),
                                   !.last_fetch = resp.kind,
                                   !.linkless_run =
                                       @ \/ (run # NoRun /\ ~Usable(run)),
                                   !.no_links_skip =
                                       @ \/ SkipBranch(run, res.scientific_name) = "no_links"]
         IN  res' = IF Accepts(run, res.scientific_name)
                    THEN [logged EXCEPT !.pc = "done", !.result = run]
                    ELSE NextCandidate(logged)
    /\ UNCHANGED <<fetch, nm, op, fs, pair, probe, sel, links, gs, mates>>

ResolveInit ==
    /\ res \in {ResolveStart(p, s) : p \in {"SHORT", "LONG"}, s \in {"WGS", "Any"}}
    /\ fetch = Idle /\ nm = Idle /\ op = Idle /\ fs = Idle /\ pair = Idle /\ probe = Idle /\ sel = Idle /\ links = Idle /\ gs = Idle /\ mates = Idle

ResolveNext ==
    \/ SearchError
    \/ SearchRows
    \/ SkipNoAccession
    \/ ValidateCandidate

ResolveSpec == ResolveInit /\ [][ResolveNext]_vars

\* The candidates of the searches issued so far, in variant order and within
\* a variant in catalog order: the positions <<q, i>> that hold an accession.
RECURSIVE CandidatePositions(_, _)
CandidatePositions(searched, q) ==
    IF q > Len(searched) THEN <<>>
    ELSE LET rows == searched[q]
             idx == {i \in 1..Len(rows) : rows[i] # ""}
             nth(k) == CHOOSE i \in idx : Cardinality({j \in idx : j < i}) = k - 1
         IN  [k \in 1..Cardinality(idx) |-> <<q, nth(k)>>]
             \o CandidatePositions(searched, q + 1)

\* C6: resolve returns the first candidate, in variant order and catalog
\* order, that passes all three checks, having skipped every failing one
\* before it; it returns NotFound iff every variant was searched and no
\* candidate passed.
C6_FirstPassingCandidate ==
    res.pc = "done" =>
        LET cs == CandidatePositions(res.searched, 1)
            v == res.validated
            n == Len(v)
        IN  /\ n <= Len(cs)
            /\ \A k \in 1..n : <<v[k].q, v[k].i>> = cs[k]
            /\ \A k \in 1..(n - 1) : ~v[k].passed
            /\ res.result # NoRun =>
                   /\ n >= 1
                   /\ v[n].passed
                   /\ res.result.run_accession = v[n].acc
            /\ res.result = NoRun =>
                   /\ n = Len(cs)
                   /\ Len(res.searched) = Len(res.queries)
                   /\ \A k \in 1..n : ~v[k].passed

\* C6 witness: the second variant's second candidate is returned after three
\* candidates were skipped, and every check has failed for one of them.
C6_Witness ==
    /\ res.pc = "done"
    /\ res.result # NoRun
    /\ Len(res.validated) = 4
    /\ res.validated[4].q = 2
    /\ res.failed_checks = {"fetched", "organism", "links"}

\* The platforms of a platform class.
ClassPlatforms(platform_type) ==
    IF platform_type = "SHORT" THEN ShortPlatforms ELSE LongPlatforms

\* C8: every run resolve returns for platform class P and strategy S has, in
\* its full metadata, a platform of P and (unless S is Any) strategy S.
C8_ReturnedRunMeetsConstraints ==
    (res.pc = "done" /\ res.result # NoRun) =>
        /\ res.result.instrument_platform \in ClassPlatforms(res.platform_type)
        /\ res.strategy # "Any" => res.result.library_strategy = res.strategy

\* C31: in one resolve call no candidate run has its full metadata fetched
\* more than once, even when the run is in the results of more than one query
\* variant.
C31_NoRunValidatedTwice ==
    \A j, k \in DOMAIN res.validated :
        (res.validated[j].acc = res.validated[k].acc
         /\ res.validated[j].q # res.validated[k].q) => j = k

\* C30: every run the metadata fetch produces is usable, so link selection
\* gives a non-empty list for every run that reaches the resolver's checks
\* and the resolver's own no-links rejection is never taken.
C30_FetchedRunsUsable ==
    res.pc \in {"search", "validate", "done"} =>
        /\ ~res.linkless_run
        /\ ~res.no_links_skip
        /\ res.result # NoRun =>
              /\ Usable(res.result)
              /\ pick_best_fastq_urls(res.result) # <<>>

\* A candidate whose row had no usable link list was dropped by the fetch,
\* and a run with only a fallback list in the sequencing format was returned.
C30_Witness ==
    /\ res.pc = "done"
    /\ res.result # NoRun
    /\ res.result.fastq_urls = <<>>
    /\ pick_best_fastq_urls(res.result) = res.result.submitted_urls
    /\ "links" \in res.failed_checks

\* C13: a transport failure while fetching one candidate's metadata skips
\* that candidate only: the resolve goes on with the next candidate of the
\* variant, else with the next variant, and ends NotFound only when every
\* variant has been searched.
C13_TransportFailureSkipsCandidate ==
    [][ ( /\ res.pc = "validate"
          /\ res'.validated # res.validated
          /\ res'.last_fetch = "error" ) =>
        /\ res'.result = NoRun
        /\ res'.validated[Len(res'.validated)].passed = FALSE
        /\ IF res.ci < Len(res.cands)
           THEN /\ res'.pc = "validate"
                /\ res'.qi = res.qi
                /\ res'.cands = res.cands
                /\ res'.ci = res.ci + 1
           ELSE IF res.qi < Len(res.queries)
           THEN res'.pc = "search" /\ res'.qi = res.qi + 1
           ELSE res'.pc = "done" /\ Len(res'.sent) = Len(res.queries) ]_vars

\* The metadata fetch of the first candidate failed in transport and the
\* resolve is at the second candidate of the same variant.
C13_Witness ==
    /\ res.pc = "validate"
    /\ res.last_fetch = "error"
    /\ res.ci = 2
    /\ Len(res.validated) = 1
    /\ res.validated[1].i = 1

\* C14: the variants are built in a fixed order (SHORT: Illumina and PAIRED,
\* then Illumina or Ion Torrent with any layout; LONG: one query); each is
\* sent at most once, in that order; a variant is sent only after every
\* candidate of the one before it was validated and failed; and the passing
\* candidate's fetch is the last request of the call.
C14_VariantsInOrder ==
    res.pc \in {"search", "validate", "done"} =>
        /\ IF res.platform_type = "SHORT"
           THEN /\ Len(res.queries) = 2
                /\ res.queries[1].instrument_platform = {"ILLUMINA"}
                /\ res.queries[1].library_layout = "PAIRED"
                /\ res.queries[2].instrument_platform = {"ILLUMINA", "ION_TORRENT"}
                /\ res.queries[2].library_layout = "Any"
           ELSE /\ Len(res.queries) = 1
                /\ res.queries[1].instrument_platform = {"OXFORD_NANOPORE", "PACBIO_SMRT"}
        /\ Len(res.sent) <= Len(res.queries)
        /\ \A k \in 1..Len(res.sent) : res.sent[k] = res.queries[k]
        /\ \A k \in 2..Len(res.sent) :
             \A i \in 1..Len(res.searched[k - 1]) :
                res.searched[k - 1][i] # "" =>
                    \E n \in 1..Len(res.validated) :
                        /\ res.validated[n].q = k - 1
                        /\ res.validated[n].i = i
                        /\ ~res.validated[n].passed
        /\ \A n \in 1..Len(res.validated) :
             res.validated[n].passed =>
                /\ n = Len(res.validated)
                /\ res.pc = "done"
                /\ res.result # NoRun
                /\ Len(res.sent) = res.validated[n].q

\* Both variants of a SHORT resolve were sent and a candidate of the second
\* one passed after a candidate of the first one had failed.
C14_Witness ==
    /\ res.pc = "done"
    /\ res.platform_type = "SHORT"
    /\ Len(res.sent) = 2
    /\ Len(res.validated) >= 2
    /\ res.validated[1].q = 1
    /\ res.validated[Len(res.validated)].q = 2
    /\ res.validated[Len(res.validated)].passed

(***************************************************************************)
(* LINK FIELDS: parse_semicolon_list and ftp_path_to_https as get_run_info *)
(* applies them.  A string is a sequence of tokens; a scheme prefix is one *)
(* token, so startswith(scheme) is a test of the first token.              *)
(***************************************************************************)

\* Largest number of tokens in a link field explored.
MaxFieldLen == 5

Schemes == {"ftp://", "http://", "https://"}
LinkTokens == Schemes \cup {"h", " ", ";"}

StartsWith(s, scheme) == Len(s) >= 1 /\ s[1] = scheme

\* An http:// link is returned with https:// put in front of it.
ftp_path_to_https_keeping_http(url_or_path) ==
    LET s == Strip(url_or_path)
        t == IF StartsWith(s, "ftp://") THEN Tail(s) ELSE s
    IN  IF StartsWith(t, "https://") THEN t ELSE <<"https://">> \o t

ftp_path_to_https(url_or_path) ==
    LET s == Strip(url_or_path)
        t == IF StartsWith(s, "ftp://") THEN Tail(s) ELSE s
        u == IF StartsWith(t, "http://") THEN <<"https://">> \o Tail(t) ELSE t
    IN  IF StartsWith(u, "https://") THEN u ELSE <<"https://">> \o u

\* str.split(";"): the pieces between the semicolons, empty ones included.
RECURSIVE SplitSemicolon(_)
SplitSemicolon(s) ==
    IF \A k \in 1..Len(s) : s[k] # ";" THEN <<s>>
    ELSE LET k == CHOOSE i \in 1..Len(s) :
                      s[i] = ";" /\ \A j \in 1..(i - 1) : s[j] # ";"
         IN  <<SubSeq(s, 1, k - 1)>> \o SplitSemicolon(SubSeq(s, k + 1, Len(s)))

\* [x.strip() for x in (s or "").split(";") if x.strip()]
RECURSIVE StripNonEmpty(_)
StripNonEmpty(pieces) ==
    IF pieces = <<>> THEN <<>>
    ELSE (IF Strip(Head(pieces)) # <<>> THEN <<Strip(Head(pieces))>> ELSE <<>>)
         \o StripNonEmpty(Tail(pieces))

parse_semicolon_list(s) == StripNonEmpty(SplitSemicolon(s))

LinkFieldValues == UNION {[1..n -> LinkTokens] : n \in 0..MaxFieldLen}

LinksStart(field) ==
    [pc |-> "row", field |-> field, items |-> <<>>, urls |-> <<>>]

\* get_run_info, lines 283-284: the field is split ...
LinksParse ==
    /\ links.pc = "row"
    /\ links' = [links EXCEPT !.pc = "split",
                              !.items = parse_semicolon_list(links.field)]
    /\ UNCHANGED <<fetch, nm, res, op, fs, pair, probe, sel, gs, mates>>

\* ... and every item is normalized, in order, into the list the run stores.
LinksNormalize ==
    /\ links.pc = "split"
    /\ links' = [links EXCEPT !.pc = "stored",
                              !.urls = [k \in 1..Len(links.items) |->
                                           ftp_path_to_https(links.items[k])]]
    /\ UNCHANGED <<fetch, nm, res, op, fs, pair, probe, sel, gs, mates>>

LinksInit ==
    /\ links \in {LinksStart(f) : f \in LinkFieldValues}
    /\ fetch = Idle /\ nm = Idle /\ res = Idle /\ op = Idle /\ fs = Idle /\ pair = Idle /\ probe = Idle /\ sel = Idle /\ gs = Idle /\ mates = Idle

LinksNext ==
    \/ LinksParse
    \/ LinksNormalize

LinksSpec == LinksInit /\ [][LinksNext]_vars

\* A host/path: a link without a scheme in front.
BareLink(x) == ~(\E sc \in Schemes : StartsWith(x, sc))

\* C35: normalization maps ftp://X, http://X and a bare host/path X to
\* https://X and leaves https://X as it is, so that normalizing twice is
\* normalizing once; every link stored in a run record begins with https://,
\* and the stored list has the links of the field in the field's order.
C35_LinksNormalized ==
    links.pc = "stored" =>
        /\ Len(links.urls) = Len(links.items)
        /\ \A k \in 1..Len(links.urls) :
             LET item == links.items[k]
                 url == links.urls[k]
             IN  /\ StartsWith(url, "https://")
                 /\ ftp_path_to_https(url) = url
                 /\ BareLink(item) => url = <<"https://">> \o item
                 /\ (StartsWith(item, "ftp://") /\ BareLink(Tail(item))) =>
                        url = <<"https://">> \o Tail(item)
                 /\ (StartsWith(item, "http://") /\ BareLink(Tail(item))) =>
                        url = <<"https://">> \o Tail(item)
                 /\ StartsWith(item, "https://") => url = item

\* A field of an FTP-style link and an http link: two links stored, in order.
C35_Witness ==
    /\ links.pc = "stored"
    /\ links.field = <<"ftp://", "h", ";", "http://", "h">>
    /\ links.urls = << <<"https://", "h">>, <<"https://", "h">> >>

(***************************************************************************)
(* MATE DETECTION: detect_r1_r2.  A link is a sequence of one-character    *)
(* strings.                                                                *)
(***************************************************************************)

\* Largest number of links in one call explored.
MaxUrls == 3

\* The links explored: marked as mate 1 or mate 2 in either case, unmarked,
\* and one that sorts before the lower-case ones.
MateUrls ==
    {<<"a", "_", "R", "1">>,
     <<"a", "_", "r", "2">>,
     <<"b", "_", "1", ".", "f", "a", "s", "t", "q">>,
     <<"b", "_", "2", ".", "f", "a", "s", "t", "q">>,
     <<"a">>,
     <<"b">>,
     <<"B">>}
MateUrlLists == UNION {[1..n -> MateUrls] : n \in 0..MaxUrls}

\* "_1.fastq", "_r1", ".r1." and their mate-2 forms.
R1Marks == {<<"_", "1", ".", "f", "a", "s", "t", "q">>,
            <<"_", "r", "1">>, <<".", "r", "1", ".">>}
R2Marks == {<<"_", "2", ".", "f", "a", "s", "t", "q">>,
            <<"_", "r", "2">>, <<".", "r", "2", ".">>}

\* `pat in s`
HasSub(s, pat) ==
    \E i \in 1..(Len(s) - Len(pat) + 1) : SubSeq(s, i, i + Len(pat) - 1) = pat

\* The code point of a character.
Ord(c) ==
    CASE c = "." -> 46 [] c = "1" -> 49 [] c = "2" -> 50
      [] c = "B" -> 66 [] c = "R" -> 82 [] c = "_" -> 95
      [] c = "a" -> 97 [] c = "b" -> 98 [] c = "f" -> 102
      [] c = "q" -> 113 [] c = "r" -> 114 [] c = "s" -> 115
      [] c = "t" -> 116

\* a < b for str: the first differing character decides, a proper prefix is
\* smaller.
RECURSIVE StrLess(_, _)
StrLess(a, b) ==
    IF b = <<>> THEN FALSE
    ELSE IF a = <<>> THEN TRUE
    ELSE IF Head(a) # Head(b) THEN Ord(Head(a)) < Ord(Head(b))
    ELSE StrLess(Tail(a), Tail(b))

\* sorted(xs), by insertion; equal elements keep their order.
RECURSIVE Insert(_, _)
Insert(x, xs) ==
    IF xs = <<>> THEN <<x>>
    ELSE IF StrLess(x, Head(xs)) THEN <<x>> \o xs
    ELSE <<Head(xs)>> \o Insert(x, Tail(xs))
RECURSIVE sorted(_)
sorted(xs) ==
    IF xs = <<>> THEN <<>>
    ELSE Insert(xs[Len(xs)], sorted(SubSeq(xs, 1, Len(xs) - 1)))

\* The if and the elif of the loop body, on ul = u.lower().
MarkedR1(u) == \E m \in R1Marks : HasSub(Lower(u), m)
MarkedR2(u) == ~MarkedR1(u) /\ \E m \in R2Marks : HasSub(Lower(u), m)

\* The for loop: r1 and r2 after the links of urls were looked at in order.
RECURSIVE MarkLoop(_)
MarkLoop(urls) ==
    IF urls = <<>> THEN [r1 |-> <<>>, r2 |-> <<>>]
    ELSE LET before == MarkLoop(SubSeq(urls, 1, Len(urls) - 1))
             u == urls[Len(urls)]
         IN  IF MarkedR1(u) THEN [before EXCEPT !.r1 = Append(@, u)]
             ELSE IF MarkedR2(u) THEN [before EXCEPT !.r2 = Append(@, u)]
             ELSE before

\* The two links of the fallback are taken in input order.
detect_r1_r2_unsorted(urls) ==
    LET r1 == MarkLoop(urls).r1
        r2 == MarkLoop(urls).r2
    IN  IF (r1 = <<>> \/ r2 = <<>>) /\ Len(urls) = 2
        THEN [r1 |-> <<urls[1]>>, r2 |-> <<urls[2]>>]
        ELSE IF Len(urls) = 1 /\ r1 = <<>>
        THEN [r1 |-> <<urls[1]>>, r2 |-> <<>>]
        ELSE [r1 |-> r1, r2 |-> r2]

detect_r1_r2(urls) ==
    LET r1 == MarkLoop(urls).r1
        r2 == MarkLoop(urls).r2
        xs == sorted(urls)
    IN  IF (r1 = <<>> \/ r2 = <<>>) /\ Len(urls) = 2
        THEN [r1 |-> <<xs[1]>>, r2 |-> <<xs[2]>>]
        ELSE IF Len(urls) = 1 /\ r1 = <<>>
        THEN [r1 |-> <<urls[1]>>, r2 |-> <<>>]
        ELSE [r1 |-> r1, r2 |-> r2]

MatesStart(urls) == [pc |-> "call", urls |-> urls, r1 |-> <<>>, r2 |-> <<>>]

\* The call returns (r1_urls, r2_urls).
DetectMates ==
    /\ mates.pc = "call"
    /\ mates' = [mates EXCEPT !.pc = "returned",
                              !.r1 = detect_r1_r2(mates.urls).r1,
                              !.r2 = detect_r1_r2(mates.urls).r2]
    /\ UNCHANGED <<fetch, nm, res, op, fs, pair, probe, sel, links, gs>>

MatesInit ==
    /\ mates \in {MatesStart(urls) : urls \in MateUrlLists}
    /\ fetch = Idle /\ nm = Idle /\ res = Idle /\ op = Idle /\ fs = Idle /\ pair = Idle /\ probe = Idle /\ sel = Idle /\ links = Idle /\ gs = Idle

MatesNext == DetectMates

MatesSpec == MatesInit /\ [][MatesNext]_vars

\* The elements of urls at the positions of I, in order.
RECURSIVE AtPositions(_, _, _)
AtPositions(urls, I, i) ==
    IF i > Len(urls) THEN <<>>
    ELSE (IF i \in I THEN <<urls[i]>> ELSE <<>>) \o AtPositions(urls, I, i + 1)

\* Both mates are found by their marks.
BothDetected(urls) ==
    (\E i \in 1..Len(urls) : MarkedR1(urls[i]))
    /\ (\E i \in 1..Len(urls) : MarkedR2(urls[i]))

\* C39: the two lists returned are the links at two disjoint sets of
\* positions of the input, each in input order; when both mates are not
\* detected and 2 links are given, mate 1 is the smaller link in string order
\* and mate 2 the larger; when 1 link is given, it is mate 1 and mate 2 is
\* empty.
C39_MateLists ==
    mates.pc = "returned" =>
        LET urls == mates.urls
        IN  /\ \E I1 \in SUBSET (1..Len(urls)) :
                   \E I2 \in SUBSET ((1..Len(urls)) \ I1) :
                       /\ mates.r1 = AtPositions(urls, I1, 1)
                       /\ mates.r2 = AtPositions(urls, I2, 1)
            /\ (Len(urls) = 2 /\ ~BothDetected(urls)) =>
                   /\ Len(mates.r1) = 1 /\ Len(mates.r2) = 1
                   /\ {mates.r1[1], mates.r2[1]} = {urls[1], urls[2]}
                   /\ ~StrLess(mates.r2[1], mates.r1[1])
            /\ Len(urls) = 1 =>
                   mates.r1 = <<urls[1]>> /\ mates.r2 = <<>>

\* Two unmarked links given larger first: they come back smaller first.
C39_Witness ==
    /\ mates.pc = "returned"
    /\ Len(mates.urls) = 2
    /\ ~BothDetected(mates.urls)
    /\ StrLess(mates.urls[2], mates.urls[1])
    /\ mates.r1 = <<mates.urls[2]>>
    /\ mates.r2 = <<mates.urls[1]>>

(***************************************************************************)
(* LONG-READ SELECTION: find_long_read_for_sample and the automatic        *)
(* long-read branch of main (no --long-run override), which falls back to  *)
(* find_valid_run for the LONG class.                                      *)
(***************************************************************************)

\* short_run.sample_accession, stripped by get_run_info; "" when the row had
\* none.
SampleIds == {"", "S1"}

\* find_long_read_for_sample: the one query it builds.
SampleQuery(sample_accession, strategy) ==
    [sample_accession |-> sample_accession,
     instrument_platform |-> LongPlatforms,
     library_strategy |-> strategy]

SelStart(sample_accession, strategy) ==
    [pc |-> "sample", sample_accession |-> sample_accession,
     strategy |-> strategy,
     sample_sent |-> <<>>,   \* the queries the same-sample scan issued
     cands |-> <<>>, ci |-> 0,
     sample_run |-> NoRun,   \* what find_long_read_for_sample returned
     sample_row |-> NoRun,   \* the filereport row that run was parsed from
     long_run |-> NoRun]

\* find_long_read_for_sample returns: its locals are gone.
SampleReturn(s, run) ==
    [s EXCEPT !.pc = "returned", !.cands = <<>>, !.ci = 0, !.sample_run = run]

\* The next row of the same-sample scan, or return None after the last.
SampleNextCandidate(s) ==
    IF s.ci < Len(s.cands) THEN [s EXCEPT !.ci = @ + 1] ELSE SampleReturn(s, NoRun)

\* `if not sample_accession: return None`
SampleNoId ==
    /\ sel.pc = "sample"
    /\ sel.sample_accession = ""
    /\ sel' = SampleReturn(sel, NoRun)
    /\ UNCHANGED <<fetch, nm, res, op, fs, pair, probe, links, gs, mates>>

\* ena_search_candidates raised: return None.
SampleSearchError ==
    /\ sel.pc = "sample"
    /\ sel.sample_accession # ""
    /\ sel' = SampleReturn(
           [sel EXCEPT !.sample_sent =
                Append(@, SampleQuery(sel.sample_accession, sel.strategy))],
           NoRun)
    /\ UNCHANGED <<fetch, nm, res, op, fs, pair, probe, links, gs, mates>>

\* ena_search_candidates returned: the rows are scanned in order; no rows
\* ends the loop at once.
SampleSearchRows ==
    /\ sel.pc = "sample"
    /\ sel.sample_accession # ""
    /\ \E rows \in RowLists \cup {<<>>} :
         LET asked == [sel EXCEPT !.sample_sent =
                          Append(@, SampleQuery(sel.sample_accession, sel.strategy))]
         IN  sel' = IF rows = <<>>
                    THEN SampleReturn(asked, NoRun)
                    ELSE [asked EXCEPT !.pc = "sample_validate",
                                       !.cands = rows, !.ci = 1]
    /\ UNCHANGED <<fetch, nm, res, op, fs, pair, probe, links, gs, mates>>

SampleSkipNoAccession ==
    /\ sel.pc = "sample_validate"
    /\ sel.cands[sel.ci] = ""
    /\ sel' = SampleNextCandidate(sel)
    /\ UNCHANGED <<fetch, nm, res, op, fs, pair, probe, links, gs, mates>>

\* One row with an accession: the first run with links is returned; the
\* organism is not compared.
SampleValidate ==
    /\ sel.pc = "sample_validate"
    /\ sel.cands[sel.ci] # ""
    /\ \E resp \in RunInfoResponses(sel.cands[sel.ci]) :
         LET run == get_run_info(resp)
         IN  sel' = IF run # NoRun /\ pick_best_fastq_urls(run) # <<>>
                    THEN SampleReturn([sel EXCEPT !.sample_row = resp], run)
                    ELSE SampleNextCandidate(sel)
    /\ UNCHANGED <<fetch, nm, res, op, fs, pair, probe, links, gs, mates>>

\* The general resolve is started whatever the same-sample scan returned.
FallbackAlways(long_run) == TRUE

\* main, line 733: `if not long_run:`
FallbackNeeded(long_run) == long_run = NoRun

\* main after find_long_read_for_sample: keep its run, or start the general
\* LONG resolve.
SelAfterSample ==
    /\ sel.pc = "returned"
    /\ IF FallbackNeeded(sel.sample_run)
       THEN /\ sel' = [sel EXCEPT !.pc = "general"]
            /\ res' = ResolveStart("LONG", sel.strategy)
       ELSE /\ sel' = [sel EXCEPT !.pc = "done", !.long_run = sel.sample_run]
            /\ UNCHANGED res
    /\ UNCHANGED <<fetch, nm, op, fs, pair, probe, links, gs, mates>>

\* find_valid_run returned: its result is the long run (None is fatal).
SelAfterGeneral ==
    /\ sel.pc = "general"
    /\ res.pc = "done"
    /\ sel' = [sel EXCEPT !.pc = "done", !.long_run = res.result]
    /\ UNCHANGED <<fetch, nm, res, op, fs, pair, probe, links, gs, mates>>

SelInit ==
    /\ sel \in {SelStart(id, s) : id \in SampleIds, s \in {"WGS", "Any"}}
    /\ fetch = Idle /\ nm = Idle /\ res = Idle /\ op = Idle /\ fs = Idle /\ pair = Idle /\ probe = Idle /\ links = Idle /\ gs = Idle /\ mates = Idle

SelNext ==
    \/ SampleNoId
    \/ SampleSearchError
    \/ SampleSearchRows
    \/ SampleSkipNoAccession
    \/ SampleValidate
    \/ SelAfterSample
    \/ ResolveNext
    \/ SelAfterGeneral

SelSpec == SelInit /\ [][SelNext]_vars

\* C36: a field the catalog row gives empty or not at all is the empty string
\* in the parsed run record, for every field of the record.
C36_MissingFieldIsEmpty ==
    sel.sample_run # NoRun =>
        /\ sel.sample_row.scientific_name = <<>> =>
               sel.sample_run.scientific_name = <<>>
        /\ sel.sample_row.submitted_format = "" =>
               sel.sample_run.submitted_format = ""

\* C32: in long-read selection the same-sample scan runs first and issues
\* exactly one catalog query, scoped to the short-read run's sample identifier,
\* and none when that identifier is empty; the general LONG resolve is started
\* only after the scan returned no run, and never after it returned one.
C32_SameSampleFirst ==
    /\ Len(sel.sample_sent) <= 1
    /\ \A k \in DOMAIN sel.sample_sent :
           /\ sel.sample_sent[k].sample_accession = sel.sample_accession
           /\ sel.sample_accession # ""
    /\ sel.pc \in {"sample_validate", "returned", "general", "done"} =>
           Len(sel.sample_sent) = (IF sel.sample_accession = "" THEN 0 ELSE 1)
    /\ res # Idle =>
           /\ sel.pc \in {"general", "done"}
           /\ sel.sample_run = NoRun
    /\ sel.sample_run # NoRun => res = Idle
    /\ sel.pc = "done" =>
           IF sel.sample_run # NoRun
           THEN sel.long_run = sel.sample_run
           ELSE res.pc = "done" /\ sel.long_run = res.result

\* The scan queried the sample, its candidate had no usable run, and the
\* general resolve then found the long run.
C32_Witness ==
    /\ sel.pc = "done"
    /\ Len(sel.sample_sent) = 1
    /\ sel.sample_run = NoRun
    /\ res.pc = "done"
    /\ Len(res.validated) >= 1
    /\ sel.long_run # NoRun

(***************************************************************************)
(* EARLIER ENGINE (src/bif101/genostream.py): smart_select_and_download    *)
(* and stream_download.  A metadata item is its instrument_platform and    *)
(* the number of pieces of fastq_ftp.split(';'); a file is named by the    *)
(* index of its metadata item (its run accession) and its position.        *)
(***************************************************************************)

\* Largest number of metadata items explored.
MaxItems == 3

Instruments == {"ILLUMINA", "OXFORD_NANOPORE", "LS454"}
\* 0 is an empty fastq_ftp.
LinkCounts == {0, 1, 3}
MetadataLists ==
    UNION {[1..n -> [inst : Instruments, links : LinkCounts]] : n \in 0..MaxItems}

\* The platform filter, lines 82-86.
InClass(item, target_platform) ==
    IF target_platform = "SHORT"
    THEN item.inst \in {"ILLUMINA", "ION_TORRENT"}
    ELSE item.inst \in {"PACBIO_SMRT", "OXFORD_NANOPORE"}

\* lines 95-102: the number of files to download, 0 when the candidate is
\* skipped.
DownloadCount(item, target_platform) ==
    IF item.links = 0 THEN 0
    ELSE IF target_platform = "SHORT"
         THEN (IF item.links < 2 THEN 0 ELSE 2)
         ELSE 1

GsStart(metadata, target_platform) ==
    [pc |-> "select", metadata |-> metadata, target_platform |-> target_platform,
     candidates |-> <<>>,    \* indices of the metadata items kept by the filter
     ci |-> 0,               \* position in candidates
     k |-> 0,                \* position of the file being downloaded
     files |-> {},           \* <<item, position>> of the files in output_dir
     manifest |-> <<>>,      \* the rows written, as <<item, position>>
     attempts |-> <<>>,      \* the session.get calls, as <<item, position>>
     failed |-> {},          \* the <<item, position>> whose download raised
     succeeded |-> 0]        \* the item whose stream_download returned True

\* The indices of the items of the class, in metadata order.
RECURSIVE FilterFrom(_, _, _)
FilterFrom(metadata, target_platform, i) ==
    IF i > Len(metadata) THEN <<>>
    ELSE (IF InClass(metadata[i], target_platform) THEN <<i>> ELSE <<>>)
         \o FilterFrom(metadata, target_platform, i + 1)

\* The next candidate, or the loop is over.
GsAdvance(g) ==
    IF g.ci < Len(g.candidates)
    THEN [g EXCEPT !.pc = "candidate", !.ci = @ + 1, !.k = 0]
    ELSE [g EXCEPT !.pc = "done", !.k = 0]

\* lines 80-90: build the candidate list; return when it is empty.
GsSelect ==
    /\ gs.pc = "select"
    /\ gs' = GsAdvance([gs EXCEPT !.candidates =
                           FilterFrom(gs.metadata, gs.target_platform, 1)])
    /\ UNCHANGED <<fetch, nm, res, op, fs, pair, probe, sel, links, mates>>

\* lines 93-107: skip the candidate or call stream_download.
GsCandidate ==
    /\ gs.pc = "candidate"
    /\ LET item == gs.metadata[gs.candidates[gs.ci]]
       IN  gs' = IF DownloadCount(item, gs.target_platform) = 0
                 THEN GsAdvance(gs)
                 ELSE [gs EXCEPT !.pc = "download", !.k = 1]
    /\ UNCHANGED <<fetch, nm, res, op, fs, pair, probe, sel, links, mates>>

\* lines 129-142: the file is written and its manifest row added; after the
\* last url stream_download returns True and the candidate loop returns.
GsFileDone ==
    /\ gs.pc = "download"
    /\ LET c == gs.candidates[gs.ci]
           n == DownloadCount(gs.metadata[c], gs.target_platform)
           g == [gs EXCEPT !.attempts = Append(@, <<c, gs.k>>),
                           !.files = @ \cup {<<c, gs.k>>},
                           !.manifest = Append(@, <<c, gs.k>>)]
       IN  gs' = IF gs.k < n
                 THEN [g EXCEPT !.k = @ + 1]
                 ELSE [g EXCEPT !.pc = "done", !.k = 0, !.succeeded = c]
    /\ UNCHANGED <<fetch, nm, res, op, fs, pair, probe, sel, links, mates>>

\* Every file of the candidate is removed.
FilesAfterFailureAll(files, c, k) == files \ {<<c, j>> : j \in 1..k}

\* line 145: `if os.path.exists(filepath): os.remove(filepath)`
FilesAfterFailure(files, c, k) == files \ {<<c, k>>}

\* lines 143-146: the download raised; the file is removed, stream_download
\* returns False and the loop goes to the next candidate.
GsFileFail ==
    /\ gs.pc = "download"
    /\ LET c == gs.candidates[gs.ci]
       IN  gs' = GsAdvance([gs EXCEPT !.attempts = Append(@, <<c, gs.k>>),
                                      !.files = FilesAfterFailure(@, c, gs.k),
                                      !.failed = @ \cup {<<c, gs.k>>}])
    /\ UNCHANGED <<fetch, nm, res, op, fs, pair, probe, sel, links, mates>>

GsInit ==
    /\ gs \in {GsStart(m, t) : m \in MetadataLists, t \in {"SHORT", "LONG"}}
    /\ fetch = Idle /\ nm = Idle /\ res = Idle /\ op = Idle /\ fs = Idle /\ pair = Idle /\ probe = Idle /\ sel = Idle /\ links = Idle /\ mates = Idle

GsNext ==
    \/ GsSelect
    \/ GsCandidate
    \/ GsFileDone
    \/ GsFileFail

GsSpec == GsInit /\ [][GsNext]_vars

\* The items the loop has dealt with: all of them once the call is over, else
\* those before the current candidate.
GsPassed ==
    IF gs.pc = "done" /\ gs.succeeded = 0 THEN 1..Len(gs.metadata)
    ELSE IF gs.pc = "done" THEN 1..(gs.succeeded - 1)
    ELSE IF gs.pc = "select" THEN {}
    ELSE 1..(gs.candidates[gs.ci] - 1)

\* A SHORT candidate needs two links, a LONG candidate one.
GsEligible(i) ==
    /\ InClass(gs.metadata[i], gs.target_platform)
    /\ gs.metadata[i].links >= (IF gs.target_platform = "SHORT" THEN 2 ELSE 1)

\* C38: the candidates of the requested class are tried in metadata order, a
\* SHORT candidate with fewer than two links is skipped, and the loop stops at
\* the first candidate whose download succeeds; when the download of a
\* candidate's k-th file fails, that file alone is deleted, no later file of
\* the candidate is attempted, and its earlier files and their manifest rows
\* stay.
C38_FirstSuccessfulCandidate ==
    LET a == gs.attempts
    IN  gs.pc \in {"select", "candidate", "download", "done"} =>
        /\ \A n \in 1..Len(a) : GsEligible(a[n][1])
        /\ \A n \in 1..(Len(a) - 1) :
               \/ a[n][1] < a[n + 1][1] /\ a[n + 1][2] = 1 /\ <<a[n][1], a[n][2]>> \in gs.failed
               \/ a[n][1] = a[n + 1][1] /\ a[n + 1][2] = a[n][2] + 1
                  /\ <<a[n][1], a[n][2]>> \notin gs.failed
        /\ Len(a) >= 1 => a[1][2] = 1
        /\ \A i \in GsPassed :
               GsEligible(i) => \E k \in 1..2 : <<i, k>> \in gs.failed
        /\ \A i \in GsPassed :
               ~GsEligible(i) => \A n \in 1..Len(a) : a[n][1] # i
        /\ gs.succeeded # 0 =>
               /\ gs.pc = "done"
               /\ a[Len(a)][1] = gs.succeeded
               /\ \A k \in 1..2 : <<gs.succeeded, k>> \notin gs.failed
        /\ \A f \in gs.failed :
               /\ f \notin gs.files
               /\ \A n \in 1..Len(a) : a[n][1] = f[1] => a[n][2] <= f[2]
               /\ \A j \in 1..(f[2] - 1) :
                      /\ <<f[1], j>> \in gs.files
                      /\ \E r \in 1..Len(gs.manifest) : gs.manifest[r] = <<f[1], j>>

\* The first SHORT candidate lost its second file, its first file and row
\* stayed, and the next SHORT candidate was downloaded in full.
C38_Witness ==
    /\ gs.pc = "done"
    /\ gs.target_platform = "SHORT"
    /\ gs.succeeded # 0
    /\ \E c \in 1..Len(gs.metadata) :
           /\ c < gs.succeeded
           /\ <<c, 2>> \in gs.failed
           /\ <<c, 1>> \in gs.files
    /\ Len(gs.manifest) = 3

(***************************************************************************)
(* STREAMING SUBSAMPLER: iter_lines_from_urls and stream_subsample_to_gz.  *)
(* A line is modelled by the part and position it was read from and by     *)
(* len(line.strip()); a source part is the sequence of its lines' lengths. *)
(***************************************************************************)

\* Most parts in one url list.
MaxParts == 2
\* Numbers of complete records in one part.
RecCounts == {0, 1}

\* Sequence-line lengths of the records of a part.
SeqLens == {1, 2}
\* Lines of an incomplete record at the end of a part.
TailLens == {0, 2}

\* The k-th line of a part whose records have sequence length L: header,
\* sequence, separator, quality.
LineLen(k, L) == IF k % 4 \in {2, 0} THEN L ELSE 1
PartLines(n, L, tail) == [k \in 1..(4 * n + tail) |-> LineLen(k, L)]

Parts == {PartLines(n, L, t) : n \in RecCounts, L \in SeqLens, t \in TailLens}
UrlLists(parts) == UNION {[1..k -> parts] : k \in 1..MaxParts}

Ops == {1, 2}

Absent == [exists |-> FALSE, lines |-> <<>>, origin |-> "none"]
\* A file that was at out_path_gz before the operation.
OldFile == [exists |-> TRUE, lines |-> <<>>, origin |-> "old"]

\* The bytes of a gzip file that holds an empty stream (header and trailer).
GzipEmptyBytes == 20
\* The bytes of lines a..b, each with its newline; the range is halved so
\* that long files are summed at a small depth.
RECURSIVE RangeBytes(_, _, _)
RangeBytes(lines, a, b) ==
    IF a > b THEN 0
    ELSE IF a = b THEN lines[a].len + 1
    ELSE LET m == (a + b) \div 2
         IN  RangeBytes(lines, a, m) + RangeBytes(lines, m + 1, b)
LineBytes(lines) == RangeBytes(lines, 1, Len(lines))
\* os.path.getsize of a gzip file holding these lines, all flushed.
DiskSize(lines) == GzipEmptyBytes + LineBytes(lines)

\* `reads % 2000 == 0`: the interval of the hard-cap check.
CapCheckEvery == 2000
NoCap == 0 - 1

\* The state of one stream_subsample_to_gz call.  In MB mode target_val is
\* held in bytes: the value of int(target_val * 1024 * 1024).
SubStart(urls, mode, target_val, check_every_reads, cap_bytes) ==
    [pc |-> "start", urls |-> urls, mode |-> mode, target_val |-> target_val,
     check_every_reads |-> check_every_reads, cap_bytes |-> cap_bytes,
     reads |-> 0, bases |-> 0, line_mod |-> 0,
     part |-> 0,             \* index in urls of the part being streamed
     pos |-> 0,              \* lines read from that part
     flushed |-> 0,          \* lines of the temporary file known to be on disk
     fetched |-> <<>>,       \* the parts requested so far, in order
     near |-> FALSE,         \* an MB check found 90% to 100% of the target
     mb_checks |-> 0,        \* comparisons of the size with the MB target
     cap_checks |-> 0,       \* comparisons of the size with the hard cap
     failure |-> "none", result |-> <<>>]

NotStarted == [pc |-> "idle"]

max_bytes_mb(o) == IF o.mode = "MB" THEN o.target_val ELSE 0

\* The record position starts afresh with every part.
AfterPartResetting(o) ==
    IF o.part < Len(o.urls)
    THEN [o EXCEPT !.pc = "fetch", !.part = @ + 1, !.pos = 0, !.line_mod = 0]
    ELSE [o EXCEPT !.pc = "close"]

\* The generator moves to the next url, or is exhausted and the for loop ends.
AfterPart(o) ==
    IF o.part < Len(o.urls)
    THEN [o EXCEPT !.pc = "fetch", !.part = @ + 1, !.pos = 0]
    ELSE [o EXCEPT !.pc = "close"]

\* Every operation is given the same out_path_gz.
DirShared(i) == 1

\* The files operation i works on, out_path_gz and out_path_gz + ".part":
\* main gives every download its own out_path_gz, none of them the ".part"
\* name of another.
Dir(i) == i

\* os.makedirs, tmp = out_path_gz + ".part", gzip.open(tmp, "wb"), and the
\* first step of the generator.
SubOpen(i) ==
    /\ op[i].pc = "start"
    /\ op' = [op EXCEPT ![i] = AfterPart(op[i])]
    /\ fs' = [fs EXCEPT ![Dir(i)].part = [exists |-> TRUE, lines |-> <<>>, origin |-> "op"]]
    /\ UNCHANGED <<fetch, nm, res, pair, probe, sel, links, gs, mates>>

\* iter_lines_from_urls: http_get_with_retries(url) returned a response.
SubFetchPart(i) ==
    /\ op[i].pc = "fetch"
    /\ op' = [op EXCEPT ![i] = [@ EXCEPT !.pc = "read",
                                         !.fetched = Append(@, op[i].part)]]
    /\ UNCHANGED <<fetch, nm, res, fs, pair, probe, sel, links, gs, mates>>

\* The size is looked at every check_every_reads records only.
ShouldCheckPeriodic(o, reads, current) ==
    IF o.mode # "MB" THEN FALSE
    ELSE IF reads = 0 THEN FALSE
    ELSE reads % o.check_every_reads = 0

\* should_check_now, given the size os.path.getsize(tmp) reports.
should_check_now(o, reads, current) ==
    IF o.mode # "MB" THEN FALSE
    ELSE IF reads = 0 THEN FALSE
    ELSE IF 10 * current >= 9 * max_bytes_mb(o) THEN TRUE
    ELSE reads % o.check_every_reads = 0

\* The tests are made after the sequence line.
AtSequenceLine(line_mod) == line_mod = 2
\* `if line_mod == 0:`, the 4th line of a record has been written.
AtRecordEnd(line_mod) == line_mod = 0

\* The hard cap is looked at in MB mode only.
CapCheckedInMbOnly(o, reads) ==
    o.mode = "MB" /\ o.cap_bytes # NoCap /\ reads % CapCheckEvery = 0
\* `if cap_bytes is not None and reads % 2000 == 0`
CapChecked(o, reads) ==
    o.cap_bytes # NoCap /\ reads % CapCheckEvery = 0

\* The loop body after gz_out.write(line) for the line of length len, with
\* `seen` lines of the temporary file visible to getsize before any flush and
\* `lines` the lines written so far: the new counters and whether the loop
\* breaks.
Account(o, len, lines, seen) ==
    LET line_mod == (o.line_mod + 1) % 4
        bases == IF line_mod = 2 THEN o.bases + len ELSE o.bases
        reads == IF line_mod = 0 THEN o.reads + 1 ELSE o.reads
        mbcheck == /\ AtRecordEnd(line_mod)
                   /\ should_check_now(o, reads, DiskSize(SubSeq(lines, 1, seen)))
        target_stop ==
            /\ AtRecordEnd(line_mod)
            /\ \/ o.mode = "READS" /\ reads >= o.target_val
               \/ o.mode = "BASES" /\ bases >= o.target_val
               \/ mbcheck /\ DiskSize(lines) >= max_bytes_mb(o)
        capcheck == AtRecordEnd(line_mod) /\ ~target_stop /\ CapChecked(o, reads)
        stop == target_stop \/ (capcheck /\ DiskSize(lines) >= o.cap_bytes)
    IN  [line_mod |-> line_mod, bases |-> bases, reads |-> reads, stop |-> stop,
         flushed |-> IF mbcheck \/ capcheck THEN Len(lines) ELSE o.flushed,
         mb_checks |-> IF mbcheck THEN o.mb_checks + 1 ELSE o.mb_checks,
         cap_checks |-> IF capcheck THEN o.cap_checks + 1 ELSE o.cap_checks,
         near |-> \/ o.near
                  \/ /\ mbcheck
                     /\ 10 * DiskSize(lines) >= 9 * max_bytes_mb(o)
                     /\ DiskSize(lines) < max_bytes_mb(o)]

\* One iteration of the for loop: readline returned a line.
SubReadLine(i) ==
    /\ op[i].pc = "read"
    /\ op[i].pos < Len(op[i].urls[op[i].part])
    /\ LET o == op[i]
           line == [part |-> o.part, idx |-> o.pos + 1,
                    len |-> o.urls[o.part][o.pos + 1]]
           lines == Append(fs[Dir(i)].part.lines, line)
       IN  /\ fs' = [fs EXCEPT ![Dir(i)].part.lines = lines]
           /\ \E seen \in {o.flushed, Len(lines)} :
                LET a == Account(o, line.len, lines, seen)
                IN  op' = [op EXCEPT ![i] =
                              [@ EXCEPT !.pos = @ + 1, !.line_mod = a.line_mod,
                                        !.bases = a.bases, !.reads = a.reads,
                                        !.flushed = a.flushed, !.near = a.near,
                                        !.mb_checks = a.mb_checks,
                                        !.cap_checks = a.cap_checks,
                                        !.pc = IF a.stop THEN "close" ELSE "read"]]
    /\ UNCHANGED <<fetch, nm, res, pair, probe, sel, links, gs, mates>>

\* readline returned b"": the part is over, its response is closed.
SubEndOfPart(i) ==
    /\ op[i].pc = "read"
    /\ op[i].pos = Len(op[i].urls[op[i].part])
    /\ op' = [op EXCEPT ![i] = AfterPart(op[i])]
    /\ UNCHANGED <<fetch, nm, res, fs, pair, probe, sel, links, gs, mates>>

\* The locals of a finished call are gone; the arguments are kept.
Returned(o, result, failure) ==
    [o EXCEPT !.pc = "returned", !.result = result, !.failure = failure,
              !.reads = 0, !.bases = 0, !.line_mod = 0, !.part = 0, !.pos = 0,
              !.flushed = 0]

\* The with block closes the gzip stream, os.replace(tmp, out_path_gz), and
\* the counters and the size are returned.
SubCommit(i) ==
    /\ op[i].pc = "close"
    /\ fs' = [fs EXCEPT ![Dir(i)].out = fs[Dir(i)].part, ![Dir(i)].part = Absent]
    /\ op' = [op EXCEPT ![i] = Returned(op[i],
                 <<op[i].reads, op[i].bases, DiskSize(fs[Dir(i)].part.lines)>>, "none")]
    /\ UNCHANGED <<fetch, nm, res, pair, probe, sel, links, gs, mates>>

\* The except clause leaves the temporary file in place.
KeepTmp(dir) == dir
\* `if os.path.exists(tmp): os.remove(tmp)`
RemoveTmp(dir) == [dir EXCEPT !.part = Absent]

\* The kinds of exception each point of the call can meet.
FailureKinds(pc) ==
    CASE pc = "start" -> {"filesystem"}
      [] pc = "fetch" -> {"network"}
      [] pc = "read"  -> {"network", "decode", "filesystem"}
      [] pc = "close" -> {"filesystem"}
      [] OTHER -> {}

\* A decode error makes the call request the current part again.
AfterFailureRetrying(o, kind) ==
    IF kind = "decode"
    THEN [o EXCEPT !.pc = "fetch", !.pos = 0, !.failure = kind]
    ELSE Returned(o, <<0, 0, 0>>, kind)

\* `except Exception as e:` ends the call with 0, 0, 0.0 whatever was raised.
AfterFailure(o, kind) == Returned(o, <<0, 0, 0>>, kind)

\* An exception inside the try block: the except clause removes the
\* temporary file if it exists and returns 0, 0, 0.0.
SubFail(i) ==
    /\ \E kind \in FailureKinds(op[i].pc) :
         op' = [op EXCEPT ![i] = AfterFailure(op[i], kind)]
    /\ fs' = [fs EXCEPT ![Dir(i)] = RemoveTmp(fs[Dir(i)])]
    /\ UNCHANGED <<fetch, nm, res, pair, probe, sel, links, gs, mates>>

SubStep(i) ==
    \/ SubOpen(i)
    \/ SubFetchPart(i)
    \/ SubReadLine(i)
    \/ SubEndOfPart(i)
    \/ SubCommit(i)
    \/ SubFail(i)

\* The files of operation i: out_path_gz, out_path_gz + ".part", and what was
\* at out_path_gz when the operation began.
Directory(old) == [out |-> old, part |-> Absent, before |-> old]

\* The (mode, target_val, check_every_reads, cap_bytes) combinations explored.
SubArgs ==
    [mode : {"READS"}, target_val : 0..3, check_every_reads : {2}, cap_bytes : {NoCap}]
    \cup [mode : {"BASES"}, target_val : {0, 2, 3}, check_every_reads : {2}, cap_bytes : {NoCap}]
    \cup [mode : {"MB"}, target_val : {0, 29}, check_every_reads : {1, 2}, cap_bytes : {NoCap}]
    \cup [mode : {"READS", "BASES", "MB"}, target_val : {3}, check_every_reads : {2}, cap_bytes : {25}]

SubInit ==
    /\ \E urls \in UrlLists(Parts), a \in SubArgs :
         op = [i \in Ops |->
                 IF i = 1
                 THEN SubStart(urls, a.mode, a.target_val, a.check_every_reads, a.cap_bytes)
                 ELSE NotStarted]
    /\ \E old \in {Absent, OldFile} :
         fs = [i \in Ops |-> Directory(IF i = 1 THEN old ELSE Absent)]
    /\ fetch = Idle /\ nm = Idle /\ res = Idle /\ pair = Idle /\ probe = Idle /\ sel = Idle /\ links = Idle /\ gs = Idle /\ mates = Idle

SubNext == SubStep(1)

SubSpec == SubInit /\ [][SubNext]_vars

\* KeyboardInterrupt while the call waits for the response of a part, for a
\* line of it, or in gz_out.write: the with block closes the gzip stream and
\* the exception, which is not an Exception, passes the except clause and
\* leaves the function.
SubCancel(i) ==
    /\ op[i].pc \in {"fetch", "read"}
    /\ op' = [op EXCEPT ![i].pc = "cancelled"]
    /\ UNCHANGED <<fetch, nm, res, fs, pair, probe, sel, links, gs, mates>>

CancelNext ==
    \/ SubStep(1)
    \/ SubCancel(1)

CancelSpec == SubInit /\ [][CancelNext]_vars

\* Two calls with different out_path_gz, a short-read and a long-read
\* download, whose steps interleave in any order.
ConcSources ==
    {<<PartLines(2, 1, 0)>>, <<PartLines(1, 2, 0), PartLines(1, 2, 2)>>}

ConcArgs ==
    [mode : {"READS"}, target_val : {1, 3}, check_every_reads : {2}, cap_bytes : {NoCap}]
    \cup [mode : {"MB"}, target_val : {29}, check_every_reads : {1}, cap_bytes : {NoCap}]

ConcInit ==
    /\ \E u \in [Ops -> ConcSources], a \in [Ops -> ConcArgs] :
         op = [i \in Ops |->
                 SubStart(u[i], a[i].mode, a[i].target_val,
                          a[i].check_every_reads, a[i].cap_bytes)]
    /\ fs = [i \in Ops |-> Directory(Absent)]
    /\ fetch = Idle /\ nm = Idle /\ res = Idle /\ pair = Idle /\ probe = Idle /\ sel = Idle /\ links = Idle /\ gs = Idle /\ mates = Idle

ConcNext == \E i \in Ops : SubStep(i)

ConcSpec == ConcInit /\ [][ConcNext]_vars

\* MB-mode calls on sources long enough for several size checks: one part of
\* three or four records, every target from the empty file's size to beyond
\* the whole source, and check intervals 1 to 3.
MbSources == {<<PartLines(n, L, 0)>> : n \in {3, 4}, L \in SeqLens}
MbTargets == {0} \cup (GzipEmptyBytes .. (GzipEmptyBytes + 44))
MbIntervals == {1, 2, 3}

MbInit ==
    /\ \E urls \in MbSources, t \in MbTargets, k \in MbIntervals :
         op = [i \in Ops |->
                 IF i = 1 THEN SubStart(urls, "MB", t, k, NoCap) ELSE NotStarted]
    /\ fs = [i \in Ops |-> Directory(Absent)]
    /\ fetch = Idle /\ nm = Idle /\ res = Idle /\ pair = Idle /\ probe = Idle /\ sel = Idle /\ links = Idle /\ gs = Idle /\ mates = Idle

MbSpec == MbInit /\ [][SubNext]_vars

\* The sum of the sequence-line lengths of records a..b of a part.
RECURSIVE PartBases(_, _, _)
PartBases(part, a, b) ==
    IF a > b THEN 0
    ELSE IF a = b THEN part[4 * (a - 1) + 2]
    ELSE LET m == (a + b) \div 2
         IN  PartBases(part, a, m) + PartBases(part, m + 1, b)

\* The call o and its temporary file after the first k records of the first
\* part were written, when no target was reached and no size was looked at
\* on the way.
SubAfter(o, k) ==
    [o EXCEPT !.pc = "read", !.part = 1, !.pos = 4 * k, !.reads = k,
              !.bases = PartBases(o.urls[1], 1, k), !.fetched = <<1>>]
FileAfter(urls, k) ==
    [exists |-> TRUE,
     lines |-> [j \in 1..(4 * k) |-> [part |-> 1, idx |-> j, len |-> urls[1][j]]],
     origin |-> "op"]

\* The default of check_every_reads.
DefaultCheckEvery == 2000

\* Calls that reach the first hard-cap check: a source of one record more
\* than the cap interval, targets out of reach, a cap equal to the size of
\* the file at the check, a cap one byte above it, and no cap.  The calls
\* are taken up two records before the check.
LongSource == <<PartLines(CapCheckEvery + 1, 1, 0)>>
SizeAtCapCheck == DiskSize(FileAfter(LongSource, CapCheckEvery).lines)
HardCaps == {NoCap, SizeAtCapCheck, SizeAtCapCheck + 1}
HardCapArgs ==
    [mode : {"READS", "BASES"}, target_val : {1000000},
     check_every_reads : {DefaultCheckEvery}, cap_bytes : HardCaps]
    \cup [mode : {"MB"}, target_val : {1000000},
          check_every_reads : {DefaultCheckEvery, DefaultCheckEvery + 1},
          cap_bytes : HardCaps]

HardCapInit ==
    /\ \E a \in HardCapArgs :
         op = [i \in Ops |->
                 IF i = 1
                 THEN SubAfter(SubStart(LongSource, a.mode, a.target_val,
                                        a.check_every_reads, a.cap_bytes),
                               CapCheckEvery - 2)
                 ELSE NotStarted]
    /\ fs = [i \in Ops |->
                 IF i = 1
                 THEN [Directory(Absent) EXCEPT
                          !.part = FileAfter(LongSource, CapCheckEvery - 2)]
                 ELSE Directory(Absent)]
    /\ fetch = Idle /\ nm = Idle /\ res = Idle /\ pair = Idle /\ probe = Idle /\ sel = Idle /\ links = Idle /\ gs = Idle /\ mates = Idle

HardCapNext ==
    \/ SubReadLine(1)
    \/ SubEndOfPart(1)
    \/ SubCommit(1)
    \/ SubFail(1)

HardCapSpec == HardCapInit /\ [][HardCapNext]_vars

\* Reading line by line from the start gives the state SubAfter describes.
SubAfterAgrees ==
    LET o == op[1]
    IN  ( /\ o.pc = "read" /\ o.part = 1
          /\ o.pos % 4 = 0
          /\ o.mb_checks = 0 /\ o.cap_checks = 0 ) =>
            /\ o = SubAfter(SubStart(o.urls, o.mode, o.target_val,
                                     o.check_every_reads, o.cap_bytes), o.pos \div 4)
            /\ fs[1].part = FileAfter(o.urls, o.pos \div 4)

\* The lines of all parts of a url list, in order.
RECURSIVE Concat(_)
Concat(urls) == IF urls = <<>> THEN <<>> ELSE urls[1] \o Concat(Tail(urls))

WellFormed(urls) == \A p \in 1..Len(urls) : Len(urls[p]) % 4 = 0
Succeeded(o) == o.pc = "returned" /\ o.failure = "none"
Failed(o) == o.pc = "returned" /\ o.failure # "none"

\* C2: in RECORDS mode without a hard cap, on a well-formed source of N
\* records and for every target R >= 0, the call succeeds having emitted
\* exactly min(R, N) records.
C2_RecordsModeExact ==
    LET o == op[1]
    IN  ( /\ Succeeded(o)
          /\ o.mode = "READS" /\ o.cap_bytes = NoCap
          /\ WellFormed(o.urls) )
        => /\ o.result[1] = Min(o.target_val, Len(Concat(o.urls)) \div 4)
           /\ Len(fs[1].out.lines) = 4 * Min(o.target_val, Len(Concat(o.urls)) \div 4)

\* C3: the finished output file holds a whole number of 4-line records.
C3_OutputRecordAligned ==
    Succeeded(op[1]) => Len(fs[1].out.lines) % 4 = 0

\* C5: a download that met a network, decode or filesystem failure ends as
\* an error, not as a returned (records, bases, size) result.
C5_FailureSurfaced ==
    op[1].failure # "none" => op[1].pc # "returned"

RECURSIVE SourceLines(_, _)
SourceLines(urls, p) ==
    IF p > Len(urls) THEN <<>>
    ELSE [k \in 1..Len(urls[p]) |-> [part |-> p, idx |-> k, len |-> urls[p][k]]]
         \o SourceLines(urls, p + 1)

IsPrefix(a, b) == Len(a) <= Len(b) /\ a = SubSeq(b, 1, Len(a))

\* What the call has written: the temporary file while it runs, the output
\* file after it succeeded.
Written(o, d) ==
    IF Succeeded(o) THEN d.out.lines
    ELSE IF o.pc \in {"fetch", "read", "close"} THEN d.part.lines
    ELSE <<>>

\* C15: the lines written are always a prefix of the lines of the parts taken
\* in order; the parts are requested in order, each after every line of the
\* one before it was read; and the position in the record and the record
\* count run on across part boundaries.
C15_LinesInSourceOrder ==
    LET o == op[1]
        written == Written(o, fs[1])
    IN  o.pc \in {"start", "fetch", "read", "close", "returned"} =>
        /\ IsPrefix(written, SourceLines(o.urls, 1))
        /\ o.fetched = [k \in 1..Len(o.fetched) |-> k]
        /\ o.pc \in {"fetch", "read"} =>
              /\ Len(o.fetched) = IF o.pc = "fetch" THEN o.part - 1 ELSE o.part
              /\ Len(written) =
                     Len(SourceLines(SubSeq(o.urls, 1, o.part - 1), 1)) + o.pos
        /\ o.pc \in {"fetch", "read", "close"} =>
              /\ o.line_mod = Len(written) % 4
              /\ o.reads = Len(written) \div 4

\* A record that begins in the first part and ends in the second has been
\* counted.
C15_Witness ==
    /\ op[1].pc = "read"
    /\ op[1].part = 2
    /\ Len(op[1].urls[1]) % 4 = 2
    /\ op[1].pos >= 2
    /\ op[1].reads = Len(op[1].urls[1]) \div 4 + 1

C16_CancelRemovesTmp ==
    op[1].pc = "cancelled" => ~fs[1].part.exists

\* The complete 4-line records in a file.
Records(file) == Len(file.lines) \div 4

\* The sum of the sequence-line lengths of the first n records of a file.
RECURSIVE FileBases(_, _)
FileBases(lines, n) ==
    IF n = 0 THEN 0 ELSE lines[4 * (n - 1) + 2].len + FileBases(lines, n - 1)

\* C24: in BASES mode with target T and no hard cap the call stops after the
\* first record at which the cumulative sequence length reaches T: when the
\* source holds at least T bases the output holds at least T bases and fewer
\* than T without its last record; otherwise every record is emitted.
C24_BasesModeOvershoot ==
    LET o == op[1]
        src == SourceLines(o.urls, 1)
        N == Len(src) \div 4
        out == fs[1].out.lines
        n == Len(out) \div 4
    IN  (Succeeded(o) /\ o.mode = "BASES" /\ o.cap_bytes = NoCap) =>
            IF FileBases(src, N) >= o.target_val
            THEN /\ FileBases(out, n) >= o.target_val
                 /\ n >= 1 => FileBases(out, n - 1) < o.target_val
            ELSE n = N

\* A file without its last record, complete or not.
WithoutLastRecord(lines) ==
    SubSeq(lines, 1, Len(lines) - (IF Len(lines) % 4 = 0 THEN 4 ELSE Len(lines) % 4))

C26_HardCapStopsEarly ==
    LET o == op[1]
        written == Written(o, fs[1])
        at_check == FileAfter(o.urls, CapCheckEvery).lines
    IN  o.cap_bytes # NoCap =>
          /\ ( (o.pc \in {"read", "close"} \/ Succeeded(o))
               /\ Len(written) >= 4 * CapCheckEvery ) => o.cap_checks = 1
          /\ Succeeded(o) =>
               IF DiskSize(at_check) >= o.cap_bytes
               THEN /\ fs[1].out.exists
                    /\ fs[1].out.lines = at_check
                    /\ ~fs[1].part.exists
                    /\ o.result = <<CapCheckEvery,
                                    PartBases(o.urls[1], 1, CapCheckEvery),
                                    DiskSize(at_check)>>
               ELSE fs[1].out.lines = SourceLines(o.urls, 1)

\* A BASES call ended as a success at the record of the cap check, short of
\* its target and of the end of the source.
C26_Witness ==
    /\ Succeeded(op[1])
    /\ op[1].mode = "BASES"
    /\ op[1].cap_bytes = SizeAtCapCheck
    /\ op[1].cap_checks = 1
    /\ op[1].result[1] = CapCheckEvery
    /\ Len(fs[1].out.lines) < Len(op[1].urls[1])

\* C27: in MB mode the hard cap is never looked at more often than the
\* target, for every check interval of the target.
C27_CapCoarserThanTarget ==
    (op[1].mode = "MB" /\ op[1].cap_bytes # NoCap) =>
        op[1].cap_checks <= op[1].mb_checks

\* C28: the target and the hard cap are evaluated, and a stop is decided,
\* only in the step that writes the 4th line of a record; and the counters
\* of a running call change only in a step that writes a line.
C28_ChecksAtRecordBoundary ==
    [][ op[1].pc = "read" =>
          LET written == fs'[1].part.lines
              boundary == Len(written) > 0 /\ Len(written) % 4 = 0
              wrote == written = Append(fs[1].part.lines,
                                        written[Len(written)])
          IN  /\ ( \/ op'[1].mb_checks # op[1].mb_checks
                   \/ op'[1].cap_checks # op[1].cap_checks ) => (wrote /\ boundary)
              /\ ( op'[1].pc = "close" /\ fs'[1] # fs[1] ) => (wrote /\ boundary)
              /\ ( /\ op'[1].pc # "returned"
                   /\ \/ op'[1].reads # op[1].reads
                      \/ op'[1].bases # op[1].bases
                      \/ op'[1].line_mod # op[1].line_mod ) => wrote ]_vars

\* A BASES call whose target was met by the sequence line of the first
\* record stopped after the 4th line, with more of the source to come.
C28_Witness ==
    /\ op[1].pc = "close"
    /\ op[1].mode = "BASES"
    /\ op[1].target_val = 2
    /\ Len(fs[1].part.lines) = 4
    /\ fs[1].part.lines[2].len = 2
    /\ Len(SourceLines(op[1].urls, 1)) > 4

\* C29: on success the record count returned is the number of complete
\* records in the output file and the base count returned is the sum of the
\* sequence-line lengths of those records.
C29_CountersMatchOutput ==
    Succeeded(op[1]) =>
        /\ op[1].result[1] = Records(fs[1].out)
        /\ op[1].result[2] = FileBases(fs[1].out.lines, Records(fs[1].out))

(***************************************************************************)
(* LENGTH PROBER and PAIRING COORDINATOR: probe_mean_read_length and the   *)
(* paired short-read branch of main.                                       *)
(***************************************************************************)

\* A mean read length is kept as the pair of sums it is the quotient of;
\* NoMean is the None the prober returns.
NoMean == [bases |-> 0, reads |-> 0]

\* The loop of probe_mean_read_length over the lines of one part.
RECURSIVE ProbeLoop(_, _, _, _, _)
ProbeLoop(lines, probe_reads, line_mod, reads, bases) ==
    IF lines = <<>> THEN [bases |-> bases, reads |-> reads]
    ELSE LET m == (line_mod + 1) % 4
             b == IF m = 2 THEN bases + Head(lines) ELSE bases
             r == IF m = 0 THEN reads + 1 ELSE reads
         IN  IF m = 0 /\ r >= probe_reads
             THEN [bases |-> b, reads |-> r]
             ELSE ProbeLoop(Tail(lines), probe_reads, m, r, b)

\* probe_mean_read_length when no exception is raised: only urls[0] is read.
probe_mean_read_length(urls, probe_reads) ==
    IF urls = <<>> THEN NoMean
    ELSE LET c == ProbeLoop(urls[1], probe_reads, 0, 0, 0)
         IN  IF c.reads = 0 THEN NoMean ELSE c

\* The sources one probe call is explored on: a first part of up to two
\* records of any sequence lengths, with or without the first lines of one
\* more record, followed by any further parts; and the empty link list.
ProbeSeqs == UNION {[1..n -> {0, 1, 2}] : n \in 0..2}

RECURSIVE RecordLines(_)
RecordLines(ls) ==
    IF ls = <<>> THEN <<>> ELSE <<1, ls[1], 1, ls[1]>> \o RecordLines(Tail(ls))

ProbeFirstParts ==
    {RecordLines(ls) \o PartLines(0, L, t) : ls \in ProbeSeqs, L \in SeqLens, t \in TailLens}

ProbeUrlLists ==
    {<<>>} \cup
    {<<first>> \o rest :
        first \in ProbeFirstParts,
        rest \in {<<>>} \cup UNION {[1..k -> Parts] : k \in 1..(MaxParts - 1)}}

\* Values of probe_reads explored.
ProbeLimits == {1, 2, 3}

\* Every part is handed to the generator.
ProbedUrlsAll(urls) == urls
\* `[urls[0]]`: the list handed to iter_lines_from_urls.
ProbedUrls(urls) == <<urls[1]>>

\* The state of one probe_mean_read_length call.
ProbeStart(urls, probe_reads) ==
    [pc |-> "start", urls |-> urls, probe_reads |-> probe_reads,
     reads |-> 0, bases |-> 0, line_mod |-> 0,
     part |-> 0,             \* index of the part being streamed
     pos |-> 0,              \* lines read from that part
     fetched |-> <<>>,       \* the parts requested so far, in order
     raised |-> FALSE,       \* an exception was caught
     failure |-> "none",     \* the kind of exception caught
     result |-> NoMean]

\* `return`: the counters are kept as the record of what had been read.
ProbeReturn(p, mean, raised) ==
    [p EXCEPT !.pc = "returned", !.result = mean, !.raised = raised]

\* The statements after the for loop: None when no record was completed.
ProbeResult(p, reads, bases) ==
    ProbeReturn(p, IF reads = 0 THEN NoMean ELSE [bases |-> bases, reads |-> reads], FALSE)

\* `if not urls: return None`, else the generator is created.
ProbeBegin ==
    /\ probe.pc = "start"
    /\ probe' = IF probe.urls = <<>>
                THEN ProbeReturn(probe, NoMean, FALSE)
                ELSE [probe EXCEPT !.pc = "fetch", !.part = 1]
    /\ UNCHANGED <<fetch, nm, res, op, fs, pair, sel, links, gs, mates>>

\* iter_lines_from_urls: http_get_with_retries(url) returned a response.
ProbeFetchPart ==
    /\ probe.pc = "fetch"
    /\ probe' = [probe EXCEPT !.pc = "read", !.fetched = Append(@, probe.part)]
    /\ UNCHANGED <<fetch, nm, res, op, fs, pair, sel, links, gs, mates>>

\* One iteration of the for loop of the prober.
ProbeReadLine ==
    /\ probe.pc = "read"
    /\ probe.pos < Len(ProbedUrls(probe.urls)[probe.part])
    /\ LET len == ProbedUrls(probe.urls)[probe.part][probe.pos + 1]
           m == (probe.line_mod + 1) % 4
           b == IF m = 2 THEN probe.bases + len ELSE probe.bases
           r == IF m = 0 THEN probe.reads + 1 ELSE probe.reads
           read == [probe EXCEPT !.pos = @ + 1, !.line_mod = m,
                                 !.bases = b, !.reads = r]
       IN  probe' = IF m = 0 /\ r >= probe.probe_reads
                    THEN ProbeResult(read, r, b)
                    ELSE read
    /\ UNCHANGED <<fetch, nm, res, op, fs, pair, sel, links, gs, mates>>

\* readline returned b"": the generator goes to the next url of its list, or
\* is exhausted and the for loop ends.
ProbeEndOfPart ==
    /\ probe.pc = "read"
    /\ probe.pos = Len(ProbedUrls(probe.urls)[probe.part])
    /\ probe' = IF probe.part < Len(ProbedUrls(probe.urls))
                THEN [probe EXCEPT !.pc = "fetch", !.part = @ + 1, !.pos = 0]
                ELSE ProbeResult(probe, probe.reads, probe.bases)
    /\ UNCHANGED <<fetch, nm, res, op, fs, pair, sel, links, gs, mates>>

\* The kinds of exception the generator can raise: the request fails, or
\* a read fails in the network or in the gzip decoder.
ProbeFailureKinds(pc) ==
    CASE pc = "fetch" -> {"network"}
      [] pc = "read"  -> {"network", "decode"}
      [] OTHER -> {}

\* The request or a read raised: `except Exception: return None`.
ProbeFail ==
    /\ \E kind \in ProbeFailureKinds(probe.pc) :
         probe' = ProbeReturn([probe EXCEPT !.failure = kind], NoMean, TRUE)
    /\ UNCHANGED <<fetch, nm, res, op, fs, pair, sel, links, gs, mates>>

ProbeInit ==
    /\ probe \in {ProbeStart(urls, n) : urls \in ProbeUrlLists, n \in ProbeLimits}
    /\ fetch = Idle /\ nm = Idle /\ res = Idle /\ op = Idle /\ fs = Idle /\ pair = Idle /\ sel = Idle /\ links = Idle /\ gs = Idle /\ mates = Idle

ProbeNext ==
    \/ ProbeBegin
    \/ ProbeFetchPart
    \/ ProbeReadLine
    \/ ProbeEndOfPart
    \/ ProbeFail

ProbeSpec == ProbeInit /\ [][ProbeNext]_vars

\* A call in which nothing raised returns what probe_mean_read_length gives.
ProbeStepsAgree ==
    (probe.pc = "returned" /\ ~probe.raised) =>
        probe.result = probe_mean_read_length(probe.urls, probe.probe_reads)

\* The complete records of a part and the sum of the sequence-line lengths
\* of its first n records.
CompleteRecords(lines) == Len(lines) \div 4
RECURSIVE SeqLenSum(_, _)
SeqLenSum(lines, n) ==
    IF n = 0 THEN 0 ELSE lines[4 * (n - 1) + 2] + SeqLenSum(lines, n - 1)

\* Either one subsample call or one probe call, each as in its own
\* specification.
StreamInit ==
    \/ SubInit
    \/ /\ probe \in {ProbeStart(urls, n) : urls \in ProbeUrlLists, n \in ProbeLimits}
       /\ op = [i \in Ops |-> NotStarted]
       /\ fs = [i \in Ops |-> Directory(Absent)]
       /\ fetch = Idle /\ nm = Idle /\ res = Idle /\ pair = Idle /\ sel = Idle /\ links = Idle /\ gs = Idle /\ mates = Idle

StreamNext ==
    \/ SubStep(1)
    \/ ProbeNext

StreamSpec == StreamInit /\ [][StreamNext]_vars

C34_ProbeWitness ==
    /\ probe # Idle
    /\ probe.pc = "returned"
    /\ probe.failure = "decode"
    /\ probe.reads >= 1
    /\ probe.fetched = <<1>>

\* C21: a mean returned by the prober is the sum of the sequence-line lengths
\* of the first min(probe_reads, available) complete records of the stream
\* divided by their number; an incomplete last record adds nothing.
C21_MeanOfCompleteRecords ==
    (probe.pc = "returned" /\ probe.result # NoMean) =>
        LET n == Min(probe.probe_reads, CompleteRecords(probe.urls[1]))
        IN  /\ n >= 1
            /\ probe.result.reads >= 1
            /\ probe.result.bases * n
                   = SeqLenSum(probe.urls[1], n) * probe.result.reads

\* C22: the prober returns Unavailable exactly when no complete record was
\* read; when at least one complete record was read it returns a mean.
C22_UnavailableIffNoRecord ==
    probe.pc = "returned" => (probe.result = NoMean <=> probe.reads = 0)

\* C23: the prober requests the first part only, also when that part ends
\* before probe_reads complete records were read.
C23_FirstPartOnly ==
    probe.pc \in {"start", "fetch", "read", "returned"} =>
        /\ Len(probe.fetched) <= 1
        /\ \A k \in 1..Len(probe.fetched) : probe.fetched[k] = 1

\* The first part ended short of probe_reads records, further parts exist
\* and the call returned the mean of the first part.
C23_Witness ==
    /\ probe.pc = "returned"
    /\ ~probe.raised
    /\ Len(probe.urls) >= 2
    /\ probe.reads >= 1
    /\ probe.reads < probe.probe_reads
    /\ probe.result # NoMean
    /\ probe.fetched = <<1>>

\* `not mean`: None, or a mean of 0.0.
Falsy(mean) == mean.reads = 0 \/ mean.bases = 0

\* Rounding down.
FloorDiv(a, b) == a \div b
\* math.ceil of the quotient of two positive integers.
CeilDiv(a, b) == (a + b - 1) \div b

\* int(math.ceil(target_bases_short / (mean_r1 + mean_r2)))
reads_needed(target_bases_short, mean_r1, mean_r2) ==
    CeilDiv(target_bases_short * mean_r1.reads * mean_r2.reads,
            mean_r1.bases * mean_r2.reads + mean_r2.bases * mean_r1.reads)

\* The mate sources explored: parts of one complete record each, whose
\* sequence line may be empty.
MateSeqLens == {0, 1, 2}
MateParts == {PartLines(1, L, 0) : L \in MateSeqLens}
\* Values of target_bases_short and of args.probe_reads explored.
TargetBases == {3, 8}
ProbeReads == {1}

PairStart(r1_urls, r2_urls, target_bases_short, probe_reads) ==
    [pc |-> "probe1", r1_urls |-> r1_urls, r2_urls |-> r2_urls,
     target_bases_short |-> target_bases_short, probe_reads |-> probe_reads,
     mean_r1 |-> NoMean, mean_r2 |-> NoMean,
     path |-> "none",        \* "reads_needed" or "fallback"
     reads_needed |-> 0]

\* mean_r1 = probe_mean_read_length(r1_urls), then the same for r2_urls; a
\* probe whose stream raises returns None.
PairProbe ==
    /\ pair.pc \in {"probe1", "probe2"}
    /\ \E raised \in BOOLEAN :
         LET urls == IF pair.pc = "probe1" THEN pair.r1_urls ELSE pair.r2_urls
             mean == IF raised THEN NoMean
                     ELSE probe_mean_read_length(urls, pair.probe_reads)
         IN  pair' = IF pair.pc = "probe1"
                     THEN [pair EXCEPT !.pc = "probe2", !.mean_r1 = mean]
                     ELSE [pair EXCEPT !.pc = "probed", !.mean_r2 = mean]
    /\ UNCHANGED <<fetch, nm, res, op, fs, probe, sel, links, gs, mates>>

\* The choice between the fallback and the reads_needed path, and the call
\* of stream_subsample_to_gz for R1.
PairStartMate1 ==
    /\ pair.pc = "probed"
    /\ IF Falsy(pair.mean_r1) \/ Falsy(pair.mean_r2)
       THEN /\ pair' = [pair EXCEPT !.pc = "mate1", !.path = "fallback"]
            /\ op' = [op EXCEPT ![1] =
                         SubStart(pair.r1_urls, "BASES",
                                  pair.target_bases_short \div 2, 2000, NoCap)]
       ELSE LET n == reads_needed(pair.target_bases_short, pair.mean_r1, pair.mean_r2)
            IN  /\ pair' = [pair EXCEPT !.pc = "mate1", !.path = "reads_needed",
                                        !.reads_needed = n]
                /\ op' = [op EXCEPT ![1] =
                             SubStart(pair.r1_urls, "READS", n, 2000, NoCap)]
    /\ UNCHANGED <<fetch, nm, res, fs, probe, sel, links, gs, mates>>

\* R2 is asked for the estimate, not for what R1 gave.
Mate2TargetEstimate(p, reads_r1) == IF p.path = "reads_needed" THEN p.reads_needed ELSE reads_r1
\* target_val=reads_r1, on both paths.
Mate2Target(p, reads_r1) == reads_r1

\* R1 has returned: stream_subsample_to_gz for R2 with target_val=reads_r1.
PairStartMate2 ==
    /\ pair.pc = "mate1"
    /\ op[1].pc = "returned"
    /\ pair' = [pair EXCEPT !.pc = "mate2"]
    /\ op' = [op EXCEPT ![2] =
                 SubStart(pair.r2_urls, "READS", Mate2Target(pair, op[1].result[1]),
                          2000, NoCap)]
    /\ UNCHANGED <<fetch, nm, res, fs, probe, sel, links, gs, mates>>

\* R2 has returned: the two manifest rows are written.
PairFinish ==
    /\ pair.pc = "mate2"
    /\ op[2].pc = "returned"
    /\ pair' = [pair EXCEPT !.pc = "done"]
    /\ UNCHANGED <<fetch, nm, res, op, fs, probe, sel, links, gs, mates>>

PairInit ==
    /\ pair \in {PairStart(u1, u2, t, p) :
                    u1 \in UrlLists(MateParts), u2 \in UrlLists(MateParts),
                    t \in TargetBases, p \in ProbeReads}
    /\ op = [i \in Ops |-> NotStarted]
    /\ fs = [i \in Ops |-> Directory(Absent)]
    /\ fetch = Idle /\ nm = Idle /\ res = Idle /\ probe = Idle /\ sel = Idle /\ links = Idle /\ gs = Idle /\ mates = Idle

PairNext ==
    \/ PairProbe
    \/ PairStartMate1
    \/ PairStartMate2
    \/ PairFinish
    \/ \E i \in Ops : SubStep(i)

PairSpec == PairInit /\ [][PairNext]_vars

\* C1: whatever the probe outcomes, when both mates hold at least one record
\* the paired operation ends with mate outputs of equal record count.
C1_MatesRecordCountEqual ==
    (pair.pc = "done" /\ Succeeded(op[1]) /\ Succeeded(op[2])) =>
        /\ op[1].result[1] = op[2].result[1]
        /\ Records(fs[1].out) = Records(fs[2].out)

\* C17: on both paths mate 2 is requested in RECORDS mode with the number of
\* records the finished mate 1 download emitted, not with the estimate, and
\* it is started only after mate 1 has finished.
C17_Mate2SyncedToMate1 ==
    op[2].pc # "idle" =>
        /\ op[1].pc = "returned"
        /\ pair.path \in {"fallback", "reads_needed"}
        /\ op[2].mode = "READS"
        /\ op[2].target_val = op[1].result[1]
        /\ Succeeded(op[1]) => op[2].target_val = Records(fs[1].out)

\* Mate 1 ran short of the estimate and mate 2 was asked for what mate 1
\* emitted.
C17_Witness ==
    /\ op[2].pc # "idle"
    /\ pair.path = "reads_needed"
    /\ Succeeded(op[1])
    /\ op[1].result[1] >= 1
    /\ op[1].result[1] < pair.reads_needed
    /\ op[2].target_val = op[1].result[1]

\* Both probes returned a mean length.
BothProbed(p) == p.mean_r1.reads > 0 /\ p.mean_r2.reads > 0

\* The sum of two means is positive.
SumPositive(p) ==
    p.mean_r1.bases * p.mean_r2.reads + p.mean_r2.bases * p.mean_r1.reads > 0

\* C18: a mate 1 download that failed ends the pairing as FAILED: mate 2 is
\* not downloaded and the pairing does not reach DONE.
C18_NoMate2AfterMate1Failed ==
    Failed(op[1]) => (op[2].pc = "idle" /\ pair.pc # "done")

\* C19: the fallback path is taken iff a probe was unavailable or the sum of
\* the two means is not positive; otherwise the RECORDS path is taken.
C19_PathChoice ==
    pair.path # "none" =>
        /\ pair.path = "fallback" <=> (~BothProbed(pair) \/ ~SumPositive(pair))
        /\ pair.path = "reads_needed" <=> (BothProbed(pair) /\ SumPositive(pair))

====
